---- MODULE Spec2Model ----
(***************************************************************************)
(* Segmentation and assembly-feature pipeline of the Shardplate armour     *)
(* generator: the build-plate splitter (split_object_for_plate), the pin   *)
(* connectors it inserts, and the per-segment drivers split_for_build_plate*)
(* and _mirror_segments.                                                   *)
(*                                                                         *)
(* Geometry.  A mesh handle is a natural number; the scene maps each live  *)
(* handle to its mesh.  A mesh is represented by what the code reads of    *)
(* it: the local bounding box (bound_box[0] = minimum corner, bound_box[6] *)
(* = maximum corner) and the object location.  The solid is taken to fill  *)
(* its bounding box, so a boolean operation is computed on boxes.          *)
(* Lengths are fixed-point: one metre is TicksPerMetre ticks, axes X, Y, Z *)
(* are the indices 1, 2, 3 (0, 1, 2 in the code).  Halving rounds down to  *)
(* a tick.                                                                 *)
(*                                                                         *)
(* Pieces.  The chest, pauldron, gauntlet, cuisse, greave and sabaton      *)
(* segmentations are modelled by their seam plan: the segments in dict     *)
(* order, the body of each (a scaled cube where the code makes one, else   *)
(* the shell mesh of the run) and the pin calls of each in call order.     *)
(* Rotations, bevels, surface details and cord channels of a body are not  *)
(* modelled.                                                               *)
(*                                                                         *)
(* Names are strings in the code; here a name is the sequence of its       *)
(* tokens, so that f"{base_name}_sec1" is Append(base_name, "_sec1") and   *)
(* prefixes and collisions of names are those of the strings.              *)
(***************************************************************************)
EXTENDS Integers, Sequences, FiniteSets, TLC

VARIABLES
    backend,        \* what reading a removed object does: "raise" | "stale"
    plate,          \* (plate_x, plate_y, plate_z) in mm
    symmetric,      \* TRUE: export_pair_segmented, FALSE: generate_and_export_segmented
    source,         \* the SegmentSet as first generated (kept for a regeneration)
    piece,          \* the armour piece generated, "none" for a plain SegmentSet
    scale,          \* HumanMeasurements.scale in percent
    shell,          \* the mesh the sculpted shells of the piece come out as
    auto_split,     \* the auto_split argument of the segmented pipeline
    table,          \* the dimension table the generator is given: "complete" or what it lacks
    history,        \* live handle -> the operations applied to that mesh, in order
    files,          \* the paths returned by the export so far
    orch,           \* state of a generate_all run
    cord,           \* state of a create_cord_channel call
    cfg,            \* state of a save / load of a configuration
    scene,          \* live handles -> mesh
    nextId,         \* next fresh handle
    pc,             \* position of the pipeline
    side,           \* "left" | "right": side being processed
    left_segments,  \* dict name -> handle, as a sequence of [name, obj]
    right_segments, \* dict of the mirrored segments
    todo,           \* items of segments.items() not yet visited (base.py:153)
    result,         \* the dict split_for_build_plate is building
    stack,          \* pending calls of split_object_for_plate, innermost first
    parts,          \* leaves returned so far by the running top-level call
    pins,           \* every pin-hole / pin-post created so far
    splits,         \* every split performed so far: name, axis, extents
    output,         \* side -> dict returned by split_for_build_plate
    leaves,         \* number of leaves the splitter returned for the current side
    run,            \* 1 for the first generation run, 2 for the repeated one
    prev            \* outcome of the first run: names and split axes

\* the inputs of a pipeline run, which no step changes
inputs == <<backend, plate, symmetric, source, piece, scale, shell, auto_split, table>>

\* the state of the other three specifications
aside == <<orch, cord, cfg>>

vars == <<inputs, aside, scene, nextId, pc, side, left_segments, right_segments,
          todo, result, stack, parts, pins, splits, output, leaves, run, prev,
          history, files>>

-----------------------------------------------------------------------------
(* Units and program constants *)

MMPerMetre == 1000
TicksPerMM == 32 * 10
TicksPerMetre == TicksPerMM * MMPerMetre

PinDiameter == 2 * TicksPerMM            \* diameter: float = 0.002
PinDepth == 3 * TicksPerMM               \* depth / height: float = 0.003
PinClearance == TicksPerMM \div 10       \* clearance: float = 0.0001
DepthGuard == 4                          \* if _depth > 4
PinOffsetPercent == 15                   \* obj.dimensions[ax] * 0.15

Axes == 1..3

-----------------------------------------------------------------------------
(* Bounds of the model *)

MaxHandles == 1024      \* handles one generation run may allocate
MaxRuns == 2            \* generation runs on the same input

-----------------------------------------------------------------------------
(* Vectors and boxes *)

Vec(x, y, z) == <<x, y, z>>
Zero3 == <<0, 0, 0>>
SetAt(v, i, x) == [v EXCEPT ![i] = x]

Max2(a, b) == IF a >= b THEN a ELSE b
Min2(a, b) == IF a <= b THEN a ELSE b
Max3(v) == Max2(v[1], Max2(v[2], v[3]))

\* world-space corners as the splitter computes them
bbox_min(o) == [i \in Axes |-> o.bound_box_min[i] + o.location[i]]
bbox_max(o) == [i \in Axes |-> o.bound_box_max[i] + o.location[i]]
WorldBox(o) == [lo |-> bbox_min(o), hi |-> bbox_max(o)]

\* obj.dimensions: extent of the bounding box per axis (scene units)
dimensions(o) == [i \in Axes |-> o.bound_box_max[i] - o.bound_box_min[i]]

\* the mesh of object o after its geometry became the world box b
WithWorldBox(o, b) ==
    [o EXCEPT !.bound_box_min = [i \in Axes |-> b.lo[i] - o.location[i]],
              !.bound_box_max = [i \in Axes |-> b.hi[i] - o.location[i]]]

Covers(c, b, i) == c.lo[i] <= b.lo[i] /\ b.hi[i] <= c.hi[i]

\* bounding box of the solid box b minus the solid box c
BoxMinus(b, c) ==
    LET full(i) == \A j \in Axes \ {i} : Covers(c, b, j)
        all == \A j \in Axes : Covers(c, b, j)
        lo(i) == IF full(i) /\ c.lo[i] <= b.lo[i] /\ c.hi[i] > b.lo[i]
                 THEN Min2(c.hi[i], b.hi[i]) ELSE b.lo[i]
        hi(i) == IF full(i) /\ c.hi[i] >= b.hi[i] /\ c.lo[i] < b.hi[i]
                 THEN Max2(c.lo[i], b.lo[i]) ELSE b.hi[i]
    IN  IF all THEN [lo |-> b.lo, hi |-> b.lo]
        ELSE [lo |-> [i \in Axes |-> lo(i)], hi |-> [i \in Axes |-> hi(i)]]

\* bounding box of the union of two solids
BoxHull(b, c) ==
    [lo |-> [i \in Axes |-> Min2(b.lo[i], c.lo[i])],
     hi |-> [i \in Axes |-> Max2(b.hi[i], c.hi[i])]]

-----------------------------------------------------------------------------
(* Mesh backend adapter *)

\* create_cube(size, location): a cube of edge `size` centred on location
create_cube(size, location) ==
    [bound_box_min |-> [i \in Axes |-> 0 - (size \div 2)],
     bound_box_max |-> [i \in Axes |-> size - (size \div 2)],
     location |-> location]

\* create_cylinder(radius, depth, location) followed by the rotation that
\* puts its axis along `axis`: radius across, depth along
create_cylinder(radius, depth, location, axis) ==
    [bound_box_min |-> [i \in Axes |-> IF i = axis THEN 0 - (depth \div 2) ELSE 0 - radius],
     bound_box_max |-> [i \in Axes |-> IF i = axis THEN depth - (depth \div 2) ELSE radius],
     location |-> location]

\* boolean_difference(obj1, obj2): obj1 with obj2 subtracted (obj2 is removed
\* from the scene by the caller of this operator)
boolean_difference(obj1, obj2) ==
    CHOOSE r \in {WithWorldBox(a, BoxMinus(WorldBox(a), WorldBox(c))) :
                    a \in {obj1}, c \in {obj2}} : TRUE

\* boolean_union(obj1, obj2)
boolean_union(obj1, obj2) ==
    CHOOSE r \in {WithWorldBox(a, BoxHull(WorldBox(a), WorldBox(c))) :
                    a \in {obj1}, c \in {obj2}} : TRUE

\* duplicate_object(obj): a copy of the object and of its mesh data
duplicate_object(o) == o

\* mirror_object(obj, axis="X"): duplicate, scale (-1, 1, 1), apply the scale:
\* the mesh data is reflected about the object's own origin
mirror_object(o) ==
    [o EXCEPT !.bound_box_min = SetAt(o.bound_box_min, 1, 0 - o.bound_box_max[1]),
              !.bound_box_max = SetAt(o.bound_box_max, 1, 0 - o.bound_box_min[1])]

-----------------------------------------------------------------------------
(* Connector geometry *)

\* the rotation chosen for a pin, as the axis the cylinder ends up along
PinAxis(direction) ==
    IF direction = <<1, 0, 0>> THEN 1
    ELSE IF direction = <<0, 1, 0>> THEN 2
    ELSE 3

\* radius of the cylinder cut by create_alignment_pin_hole
HoleRadius(diameter) == diameter \div 2

\* mutant of the post radius: the clearance taken off the diameter, not the radius
PostRadius_half_clearance(diameter, clearance) == (diameter - clearance) \div 2

\* radius of the cylinder added by create_alignment_pin_post
PostRadius(diameter, clearance) == diameter \div 2 - clearance

\* the cutting cylinder of create_alignment_pin_hole
PinHoleCylinder(location, direction, diameter, depth) ==
    create_cylinder(HoleRadius(diameter), depth * 2, location, PinAxis(direction))

\* the cylinder of create_alignment_pin_post
PinPostCylinder(location, direction, diameter, height, clearance) ==
    create_cylinder(PostRadius(diameter, clearance), height, location, PinAxis(direction))

create_alignment_pin_hole(o, location, direction) ==
    boolean_difference(o, PinHoleCylinder(location, direction, PinDiameter, PinDepth))

create_alignment_pin_post(o, location, direction) ==
    boolean_union(o, PinPostCylinder(location, direction, PinDiameter, PinDepth, PinClearance))

\* the record kept of a pin-hole: the segment it is cut into, the segment it
\* mates with, and the cylinder
HoleRecord(seg, mate, location, direction) ==
    [kind |-> "hole", side |-> side, seg |-> seg, mate |-> mate, location |-> location,
     direction |-> direction, axis |-> PinAxis(direction),
     diameter |-> 2 * HoleRadius(PinDiameter), clearance |-> 0]

PostRecord(seg, mate, location, direction) ==
    [kind |-> "post", side |-> side, seg |-> seg, mate |-> mate, location |-> location,
     direction |-> direction, axis |-> PinAxis(direction),
     diameter |-> 2 * PostRadius(PinDiameter, PinClearance),
     clearance |-> PinClearance]

-----------------------------------------------------------------------------
(* Names and dicts *)

Sec1(base_name) == Append(base_name, "_sec1")

\* mutant of the second half's name: the suffix of the first half
Sec2_same(base_name) == Append(base_name, "_sec1")

Sec2(base_name) == Append(base_name, "_sec2")

\* seg_name.replace("_left", "_right")
ReplaceLeftRight(name) ==
    [i \in 1..Len(name) |-> IF name[i] = "_left" THEN "_right" ELSE name[i]]

Keys(d) == {d[i].name : i \in 1..Len(d)}

\* d[k] = v on a dict kept in insertion order: an existing key keeps its
\* place and gets the new value, a new key is appended
DictSet(d, k, v) ==
    IF k \in Keys(d)
    THEN [i \in 1..Len(d) |-> IF d[i].name = k THEN [name |-> k, obj |-> v] ELSE d[i]]
    ELSE Append(d, [name |-> k, obj |-> v])

\* for part_name, part_obj in parts: result[part_name] = part_obj
RECURSIVE DictSetAll(_, _)
DictSetAll(d, ps) ==
    IF ps = <<>> THEN d
    ELSE CHOOSE r \in {DictSetAll(d1, rest) :
                         d1 \in {DictSet(d, Head(ps).name, Head(ps).obj)},
                         rest \in {Tail(ps)}} : TRUE

-----------------------------------------------------------------------------
(* Build-plate splitter: the decisions of split_object_for_plate *)

\* get_object_dimensions_mm: scene units are metres, times 1000
get_object_dimensions_mm(o) == [i \in Axes |-> dimensions(o)[i] * MMPerMetre]

\* the plate bounds (mm) in the fixed-point scale of get_object_dimensions_mm
plate_dims(p) == [i \in Axes |-> p[i] * TicksPerMetre]

\* oversize = [(dims_mm[0] - plate_dims[0], 0), ...]
oversize(o, p) ==
    [i \in Axes |-> <<get_object_dimensions_mm(o)[i] - plate_dims(p)[i], i>>]

\* list.sort(key=lambda x: x[0], reverse=True): stable, descending
RECURSIVE InsertDescending(_, _)
InsertDescending(x, s) ==
    IF s = <<>> THEN <<x>>
    ELSE IF Head(s)[1] >= x[1] THEN <<Head(s)>> \o InsertDescending(x, Tail(s))
    ELSE <<x>> \o s

RECURSIVE SortDescendingInto(_, _)
SortDescendingInto(s, acc) ==
    IF s = <<>> THEN acc
    ELSE CHOOSE r \in {SortDescendingInto(rest, acc1) :
                         rest \in {Tail(s)},
                         acc1 \in {InsertDescending(Head(s), acc)}} : TRUE

SortDescending(s) == SortDescendingInto(s, <<>>)

\* max_over, split_axis = oversize[0] after the sort
max_over(o, p) == SortDescending(oversize(o, p))[1][1]

\* mutant of the axis choice: the axis of largest extent
split_axis_largest_extent(o, p) ==
    CHOOSE a \in Axes :
        /\ dimensions(o)[a] = Max3(dimensions(o))
        /\ \A b \in Axes : dimensions(o)[b] = Max3(dimensions(o)) => a <= b

\* mutant of the axis choice: among tied axes the choice follows the
\* allocation state of the scene instead of the list order
split_axis_unstable(o, p) ==
    LET s == SortDescending(oversize(o, p))
    IN  IF s[1][1] = s[2][1] /\ nextId % 2 = 0 THEN s[2][2] ELSE s[1][2]

\* mutant of the axis choice: among tied axes the last in the order X, Y, Z
split_axis_last_tied(o, p) ==
    LET s == SortDescending(oversize(o, p))
    IN  IF s[1][1] = s[3][1] THEN s[3][2]
        ELSE IF s[1][1] = s[2][1] THEN s[2][2]
        ELSE s[1][2]

split_axis(o, p) == SortDescending(oversize(o, p))[1][2]

\* mutants of the depth guard: one level early, one level late
depth_cap_reached_early(depth) == depth > DepthGuard - 1
depth_cap_reached_late(depth) == depth > DepthGuard + 1

\* if _depth > 4: return the object as it is
depth_cap_reached(depth) == depth > DepthGuard

\* mutant of the fit test: an extent equal to the plate bound does not fit
fits_on_plate_strict(o, p) == max_over(o, p) < 0

\* if max_over <= 0: fits on the plate
fits_on_plate(o, p) == max_over(o, p) <= 0

\* midpoint of the bounding box along the split axis
midpoint(o, ax) == (bbox_min(o)[ax] + bbox_max(o)[ax]) \div 2

\* max_dim = max(obj.dimensions) * 2
max_dim(o) == Max3(dimensions(o)) * 2

\* Cutter1: cube of edge max_dim centred on the origin of the other two axes
\* and on midpoint - max_dim / 2 of the split axis
cutter1(o, ax) ==
    create_cube(max_dim(o), SetAt(Zero3, ax, midpoint(o, ax) - max_dim(o) \div 2))

\* Cutter2: the same cube centred on midpoint + max_dim / 2
cutter2(o, ax) ==
    create_cube(max_dim(o), SetAt(Zero3, ax, midpoint(o, ax) + max_dim(o) \div 2))

\* half1 / half2 right after their boolean difference
cut_half1(o, ax) == boolean_difference(duplicate_object(o), cutter1(o, ax))
cut_half2(o, ax) == boolean_difference(duplicate_object(o), cutter2(o, ax))

\* other_axes = [a for a in range(3) if a != split_axis], in increasing order
other_axes(ax) == IF ax = 1 THEN <<2, 3>> ELSE IF ax = 2 THEN <<1, 3>> ELSE <<1, 2>>

\* one element of pin_offsets: on the cut plane, displaced along axis a, and
\* 0.0 on the remaining axis; dims is what obj.dimensions yields at that point
pin_offset(o, ax, a, dims) ==
    SetAt(SetAt(Zero3, ax, midpoint(o, ax)), a,
          (bbox_min(o)[a] + bbox_max(o)[a]) \div 2
            + (dims[a] * PinOffsetPercent) \div 100)

pin_offsets(o, ax, dims) ==
    [k \in 1..2 |-> pin_offset(o, ax, other_axes(ax)[k], dims)]

\* pin_direction: the unit vector of the split axis
pin_direction(ax) == SetAt(Zero3, ax, 1)

\* the pins of one split, in the order the loop creates them
split_pins(o, ax, dims, base_name) ==
    LET offs == pin_offsets(o, ax, dims)
        d == pin_direction(ax)
    IN  << HoleRecord(Sec1(base_name), Sec2(base_name), offs[1], d),
           PostRecord(Sec2(base_name), Sec1(base_name), offs[1], d),
           HoleRecord(Sec1(base_name), Sec2(base_name), offs[2], d),
           PostRecord(Sec2(base_name), Sec1(base_name), offs[2], d) >>

-----------------------------------------------------------------------------
(* Segment assembly per armour piece: the seam plan, the pins of each seam *)

Pct(x, p) == (x * p) \div 100
Neg(x) == 0 - x

\* circumference / (2 * math.pi)
RadiusOf(circ) == (circ * 1000) \div 6283

ClearanceGap == TicksPerMM \div 2          \* clearance_gap = 0.0005
JointOffset == TicksPerMM                 \* the + 0.001 of the joint posts

\* HumanMeasurements defaults (mm) and get_armor_dimensions at a print scale
\* given in percent: with_clearance(v) = (v + clearance) * factor
with_clearance(mm, factor) == Pct((mm + 20) * TicksPerMM, factor)
scaled(mm, factor) == Pct(mm * TicksPerMM, factor)

get_armor_dimensions(factor) ==
    [chest |-> [width |-> with_clearance(1000 \div 2, factor),
                height |-> with_clearance(500, factor),
                depth |-> with_clearance((1000 * 100) \div 314, factor)],
     pauldron |-> [width |-> with_clearance(400 \div 2, factor),
                   height |-> scaled(Pct(300, 40), factor),
                   depth |-> with_clearance((400 * 10) \div 25, factor)],
     gauntlet |-> [hand_length |-> with_clearance(190, factor),
                   hand_width |-> with_clearance(90, factor),
                   wrist_circumference |-> with_clearance(170, factor)],
     cuisse |-> [length |-> with_clearance(450, factor),
                 lower_circumference |-> with_clearance(400, factor)],
     greave |-> [length |-> with_clearance(400, factor),
                 upper_circumference |-> with_clearance(400, factor)],
     sabaton |-> [length |-> with_clearance(270, factor),
                  width |-> with_clearance(100, factor),
                  ankle_circumference |-> with_clearance(240, factor)],
     thickness |-> scaled(4, factor)]

\* create_cube(size=1.0, location) followed by scale_object(obj, (sx, sy, sz));
\* the small rotation and the bevel applied next are left out of the box
scaled_cube(location, sx, sy, sz) ==
    [bound_box_min |-> <<Neg(sx \div 2), Neg(sy \div 2), Neg(sz \div 2)>>,
     bound_box_max |-> <<sx - sx \div 2, sy - sy \div 2, sz - sz \div 2>>,
     location |-> location]

\* one segment of a seam plan: its name, its body before the pins, its pins
Part(name, body, ps) == [name |-> name, body |-> body, pins |-> ps]

\* the two pins "for x_off in [-x, x]" of one kind
HolePair(seg, mate, x, y, z, d) ==
    << HoleRecord(seg, mate, <<Neg(x), y, z>>, d), HoleRecord(seg, mate, <<x, y, z>>, d) >>
PostPair(seg, mate, x, y, z, d) ==
    << PostRecord(seg, mate, <<Neg(x), y, z>>, d), PostRecord(seg, mate, <<x, y, z>>, d) >>

Up == <<0, 0, 1>>
Down == <<0, 0, -1>>
Forward == <<0, 1, 0>>
Backward == <<0, -1, 0>>

\* ChestGenerator.generate_segments
ChestAbName(i) == << <<"chest_ab_plate_1">>, <<"chest_ab_plate_2">>, <<"chest_ab_plate_3">> >>[i + 1]

chest_ab_plate(t, i) ==
    LET width == t.chest.width
        height == t.chest.height
        depth == t.chest.depth
        plate_height == height \div 6
        start_z == Neg(height \div 8)
        z_pos == start_z - i * Pct(plate_height, 80) - ClearanceGap * (i + 1)
        plate_width == Pct(width, 80) - i * Pct(width, 5)
        y == Neg(depth \div 3)
        above == IF i = 0 THEN <<"chest_breastplate_upper">> ELSE ChestAbName(i - 1)
    IN  Part(ChestAbName(i),
             scaled_cube(<<0, y, z_pos>>, plate_width, Pct(t.thickness, 150), plate_height),
             (IF i = 0 THEN PostPair(ChestAbName(i), above, Pct(width, 15), y,
                                     z_pos + plate_height \div 2, Up)
              ELSE <<>>)
             \o (IF i < 2 THEN HolePair(ChestAbName(i), ChestAbName(i + 1), Pct(width, 12), y,
                                        z_pos - plate_height \div 2, Down)
                 ELSE <<>>)
             \o (IF i > 0 THEN PostPair(ChestAbName(i), above, Pct(width, 12), y,
                                        z_pos + plate_height \div 2, Up)
                 ELSE <<>>))

chest_segments(t, sculpt) ==
    << Part(<<"chest_breastplate_upper">>, sculpt,
            HolePair(<<"chest_breastplate_upper">>, ChestAbName(0), Pct(t.chest.width, 15),
                     Neg(t.chest.depth \div 3), Neg(t.chest.height \div 8), Down)),
       chest_ab_plate(t, 0), chest_ab_plate(t, 1), chest_ab_plate(t, 2),
       Part(<<"chest_backplate">>, sculpt, <<>>) >>

\* PauldronGenerator.generate_segments_base
LameName(i) == << <<"pauldron_lame1", "_left">>, <<"pauldron_lame2", "_left">>,
                  <<"pauldron_lame3", "_left">> >>[i + 1]
DomeName == <<"pauldron_dome", "_left">>

pauldron_lame(t, i) ==
    LET width == t.pauldron.width
        thickness == t.thickness
        z_offset == Neg(i * Pct(t.pauldron.height, 15)) - ClearanceGap * (i + 1)
        plate_width == Pct(width, 90 - i * 10)
        posts(x, mate) == PostPair(LameName(i), mate, x, 0, z_offset + thickness, Up)
        holes(x, mate) == HolePair(LameName(i), mate, x, 0, z_offset - thickness, Down)
    IN  Part(LameName(i),
             scaled_cube(<<0, 0, z_offset>>, plate_width, Pct(t.pauldron.depth, 60),
                         thickness * 2),
             IF i = 0 THEN posts(Pct(width, 20), DomeName) \o holes(Pct(width, 15), LameName(1))
             ELSE IF i = 2 THEN posts(Pct(width, 15), LameName(1))
             ELSE << posts(Pct(width, 15), LameName(0))[1], holes(Pct(width, 15), LameName(2))[1],
                     posts(Pct(width, 15), LameName(0))[2], holes(Pct(width, 15), LameName(2))[2] >>)

pauldron_segments(t, sculpt) ==
    << Part(DomeName, sculpt,
            HolePair(DomeName, LameName(0), Pct(t.pauldron.width, 20), 0, Neg(t.thickness), Down)),
       pauldron_lame(t, 0), pauldron_lame(t, 1), pauldron_lame(t, 2),
       Part(<<"pauldron_armguard", "_left">>, sculpt, <<>>) >>

\* GauntletGenerator.generate_segments_base
length_mults == <<90, 100, 95, 80>>
\* mutant of the finger segment name: the phalanx number is left out
FingerName_no_phalanx(f, k) ==
    << <<"gauntlet_index", "_left">>, <<"gauntlet_middle", "_left">>,
       <<"gauntlet_ring", "_left">>, <<"gauntlet_pinky", "_left">> >>[f + 1]

FingerName(f, k) ==
    << << <<"gauntlet_index1", "_left">>, <<"gauntlet_index2", "_left">>,
          <<"gauntlet_index3", "_left">> >>,
       << <<"gauntlet_middle1", "_left">>, <<"gauntlet_middle2", "_left">>,
          <<"gauntlet_middle3", "_left">> >>,
       << <<"gauntlet_ring1", "_left">>, <<"gauntlet_ring2", "_left">>,
          <<"gauntlet_ring3", "_left">> >>,
       << <<"gauntlet_pinky1", "_left">>, <<"gauntlet_pinky2", "_left">>,
          <<"gauntlet_pinky3", "_left">> >> >>[f + 1][k + 1]

finger_segment(t, finger_idx, seg_idx) ==
    LET hand_length == t.gauntlet.hand_length
        hand_width == t.gauntlet.hand_width
        thickness == t.thickness
        finger_width == hand_width \div 5
        finger_length == Pct(hand_length, 55)
        x_pos == Pct(((2 * finger_idx - 3) * finger_width) \div 2, 110)
        segment_length == Pct(finger_length, length_mults[finger_idx + 1]) \div 3
        y_pos == Pct(hand_length, 25) + seg_idx * Pct(segment_length, 90)
        z_pos == Pct(hand_width, 15)
        taper == 100 - seg_idx * 10
        seg_len == Pct(segment_length, 85)
        name == FingerName(finger_idx, seg_idx)
    IN  Part(name,
             scaled_cube(<<x_pos, y_pos, z_pos>>,
                         Pct(Pct(finger_width, 80), taper) + thickness * 2,
                         seg_len,
                         Pct(Pct(finger_width, 60), taper) + thickness * 2),
             (IF seg_idx > 0
              THEN << PostRecord(name, FingerName(finger_idx, seg_idx - 1),
                                 <<x_pos, y_pos - seg_len \div 2, z_pos>>, Backward) >>
              ELSE <<>>)
             \o (IF seg_idx < 2
                 THEN << HoleRecord(name, FingerName(finger_idx, seg_idx + 1),
                                    <<x_pos, y_pos + seg_len \div 2, z_pos>>, Forward) >>
                 ELSE <<>>))

gauntlet_segments(t, sculpt) ==
    LET hand_length == t.gauntlet.hand_length
        hand_width == t.gauntlet.hand_width
        thickness == t.thickness
        wrist_radius == RadiusOf(t.gauntlet.wrist_circumference)
        thumb_length == Pct(hand_length, 35)
        thumb_width == Pct(hand_width, 25)
        tb_x == Neg(hand_width \div 2) - thumb_width \div 3
        tt_x == Neg(hand_width \div 2) - thumb_width
        hand == <<"gauntlet_hand", "_left">>
        wrist == <<"gauntlet_wrist", "_left">>
        thumb_base == <<"gauntlet_thumb_base", "_left">>
        thumb_tip == <<"gauntlet_thumb_tip", "_left">>
    IN  << Part(hand, sculpt,
                HolePair(hand, wrist, Pct(wrist_radius, 40), Neg(Pct(hand_length, 25)), 0,
                         Backward)),
           Part(wrist, sculpt,
                PostPair(wrist, hand, Pct(wrist_radius, 40),
                         Neg(Pct(hand_length, 25)) + JointOffset, 0, Backward)),
           Part(<<"gauntlet_knuckle", "_left">>, sculpt, <<>>) >>
        \o [n \in 1..12 |-> finger_segment(t, (n - 1) \div 3, (n - 1) % 3)]
        \o << Part(thumb_base,
                   scaled_cube(<<tb_x, Neg(Pct(hand_length, 10)), 0>>,
                               thumb_width + thickness * 2, Pct(thumb_length, 50),
                               Pct(thumb_width, 80) + thickness * 2),
                   << HoleRecord(thumb_base, thumb_tip,
                                 <<tb_x - Pct(thumb_width, 30), Neg(Pct(hand_length, 2)), 0>>,
                                 Forward) >>),
              Part(thumb_tip,
                   scaled_cube(<<tt_x, Pct(hand_length, 5), 0>>,
                               Pct(thumb_width, 90) + thickness * 2, Pct(thumb_length, 40),
                               Pct(thumb_width, 70) + thickness * 2),
                   << PostRecord(thumb_tip, thumb_base,
                                 <<tt_x + Pct(thumb_width, 30),
                                   Pct(hand_length, 5) - Pct(thumb_length, 20), 0>>,
                                 Backward) >>) >>

\* CuisseGenerator.generate_segments_base
cuisse_segments(t, sculpt) ==
    LET length == t.cuisse.length
        lower_radius == RadiusOf(t.cuisse.lower_circumference)
        thigh == <<"cuisse_thigh", "_left">>
        knee == <<"cuisse_knee", "_left">>
    IN  << Part(thigh, sculpt,
                HolePair(thigh, knee, Pct(lower_radius, 30), Neg(length \div 2),
                         Pct(lower_radius, 20), Backward)),
           Part(knee, sculpt,
                PostPair(knee, thigh, Pct(lower_radius, 30), Neg(length \div 2) + JointOffset,
                         Pct(lower_radius, 20), Backward)) >>

\* GreaveGenerator.generate_segments_base
greave_segments(t, sculpt) ==
    LET length == t.greave.length
        upper_radius == RadiusOf(t.greave.upper_circumference)
        shin == <<"greave_shin", "_left">>
        calf == <<"greave_calf", "_left">>
    IN  << Part(shin, sculpt,
                HolePair(shin, calf, Pct(upper_radius, 30), Pct(length, 15),
                         Neg(Pct(upper_radius, 50)), Down)),
           Part(calf, sculpt,
                PostPair(calf, shin, Pct(upper_radius, 30), Pct(length, 15),
                         Neg(Pct(upper_radius, 50)) + JointOffset, Down)) >>

\* SabatonGenerator.generate_segments_base
ToeName(i) == << <<"sabaton_toe1", "_left">>, <<"sabaton_toe2", "_left">>,
                 <<"sabaton_toe3", "_left">> >>[i + 1]

\* mutant of the toe chain: the post of the third toe segment is placed on the
\* front face of the first
toe_segment_skip(t, i) ==
    LET foot_length == t.sabaton.length
        foot_width == t.sabaton.width
        thickness == t.thickness
        toe_length == Pct(foot_length, 35)
        y_pos == Pct(foot_length, 35) + i * Pct(toe_length \div 3, 85)
        taper == 100 - i * 15
        seg_len == Pct(toe_length \div 3, 90)
        z == Pct(foot_width, 15)
    IN  Part(ToeName(i),
             scaled_cube(<<0, y_pos, z>>, Pct(foot_width, taper) + thickness * 2, seg_len,
                         Pct(Pct(foot_width, 35), taper) + thickness * 2),
             (IF i > 0
              THEN << PostRecord(ToeName(i), ToeName(i - 1),
                                 <<0, (IF i = 2 THEN Pct(foot_length, 35) + seg_len \div 2
                                        ELSE y_pos - seg_len \div 2), z>>, Backward) >>
              ELSE <<>>)
             \o (IF i < 2
                 THEN << HoleRecord(ToeName(i), ToeName(i + 1),
                                    <<0, y_pos + seg_len \div 2, z>>, Forward) >>
                 ELSE <<>>))

toe_segment(t, i) ==
    LET foot_length == t.sabaton.length
        foot_width == t.sabaton.width
        thickness == t.thickness
        toe_length == Pct(foot_length, 35)
        y_pos == Pct(foot_length, 35) + i * Pct(toe_length \div 3, 85)
        taper == 100 - i * 15
        seg_len == Pct(toe_length \div 3, 90)
        z == Pct(foot_width, 15)
    IN  Part(ToeName(i),
             scaled_cube(<<0, y_pos, z>>, Pct(foot_width, taper) + thickness * 2, seg_len,
                         Pct(Pct(foot_width, 35), taper) + thickness * 2),
             (IF i > 0
              THEN << PostRecord(ToeName(i), ToeName(i - 1),
                                 <<0, y_pos - seg_len \div 2, z>>, Backward) >>
              ELSE <<>>)
             \o (IF i < 2
                 THEN << HoleRecord(ToeName(i), ToeName(i + 1),
                                    <<0, y_pos + seg_len \div 2, z>>, Forward) >>
                 ELSE <<>>))

sabaton_segments(t, sculpt) ==
    LET foot_length == t.sabaton.length
        foot_width == t.sabaton.width
        ankle_radius == RadiusOf(t.sabaton.ankle_circumference)
        foot == <<"sabaton_foot", "_left">>
        ankle == <<"sabaton_ankle", "_left">>
    IN  << Part(foot, sculpt,
                HolePair(foot, ankle, Pct(ankle_radius, 40), Neg(Pct(foot_length, 15)),
                         Pct(foot_width, 40), Up)),
           Part(ankle, sculpt,
                PostPair(ankle, foot, Pct(ankle_radius, 40), Neg(Pct(foot_length, 15)),
                         Pct(foot_width, 40) - JointOffset, Up)),
           toe_segment(t, 0), toe_segment(t, 1), toe_segment(t, 2) >>

\* the mesh of a segment once its pins are cut and added, in call order
RECURSIVE ApplyPins(_, _)
ApplyPins(o, ps) ==
    IF ps = <<>> THEN o
    ELSE CHOOSE r \in {ApplyPins(o1, rest) :
                         o1 \in {IF Head(ps).kind = "hole"
                                 THEN create_alignment_pin_hole(o, Head(ps).location,
                                                                Head(ps).direction)
                                 ELSE create_alignment_pin_post(o, Head(ps).location,
                                                                Head(ps).direction)},
                         rest \in {Tail(ps)}} : TRUE

RECURSIVE AllPins(_)
AllPins(plan) ==
    IF plan = <<>> THEN <<>> ELSE Head(plan).pins \o AllPins(Tail(plan))

-----------------------------------------------------------------------------
(* Inputs *)

\* a solid of the given extents (mm) created centred on `loc` (mm)
Solid(ext, loc) ==
    [bound_box_min |-> [i \in Axes |-> 0 - (ext[i] * TicksPerMM) \div 2],
     bound_box_max |-> [i \in Axes |-> ext[i] * TicksPerMM - (ext[i] * TicksPerMM) \div 2],
     location |-> [i \in Axes |-> loc[i] * TicksPerMM]]

WideMesh == Solid(<<300, 200, 100>>, <<0, 0, 0>>)
FittingMesh == Solid(<<250, 250, 250>>, <<0, 0, 0>>)
FarMesh == Solid(<<300, 200, 100>>, <<0, 1000, 0>>)
TiedMesh == Solid(<<300, 300, 100>>, <<40, 0, 0>>)
ExactMesh == Solid(<<256, 200, 100>>, <<0, 0, 0>>)

\* a mesh of extents (250,300,100) mm whose data lies on one side of its
\* origin: local x in [-250, 0] mm, origin at x = 100 mm
OneSidedMesh ==
    [bound_box_min |-> <<0 - 250 * TicksPerMM, 0 - 150 * TicksPerMM, 0 - 50 * TicksPerMM>>,
     bound_box_max |-> <<0, 150 * TicksPerMM, 50 * TicksPerMM>>,
     location |-> <<100 * TicksPerMM, 0, 0>>]

InputMeshes == {WideMesh, FittingMesh, FarMesh, TiedMesh, ExactMesh}

Plates == {<<256, 256, 256>>, <<300, 150, 256>>, <<8, 8, 8>>}

Seg(name, mesh) == [name |-> name, mesh |-> mesh]

\* the SegmentSets a segmentation may hand to the pipeline, in dict order
InputSegmentSets ==
    {<< Seg(<<"base">>, m) >> : m \in InputMeshes}
    \cup {<< Seg(<<"thigh", "_left">>, m), Seg(<<"knee", "_left">>, FittingMesh) >> :
            m \in InputMeshes}
    \cup {<< Seg(<<"a">>, m), Seg(<<"a", "_sec1">>, FittingMesh) >> : m \in InputMeshes}
    \cup {<< Seg(<<"a", "_left">>, m), Seg(<<"a", "_right">>, FittingMesh) >> :
            m \in InputMeshes}
    \cup {<< Seg(<<"shell", "_left">>, OneSidedMesh) >>}

\* the pieces that have a segmentation with pins; all but the chest are
\* generated as a left/right pair
SymmetricPieces == {"pauldron", "gauntlet", "cuisse", "greave", "sabaton"}
Pieces == {"chest"} \cup SymmetricPieces

\* plate_x = plate_y = plate_z = 256.0, the defaults of the pipeline
DefaultPlate == <<256, 256, 256>>

\* full size and half size
Scales == {100, 50}

ShellMeshes == {FittingMesh, WideMesh}

\* the dimension table handed to a generator: complete, without an entry for
\* the piece type, or with an entry that lacks the first dimension the piece uses
Tables == {"complete", "no_entry", "no_dimension"}

\* the other specifications at rest
OrchIdle == [pc |-> "idle"]
CordIdle == [pc |-> "idle"]
CfgIdle == [pc |-> "idle"]

-----------------------------------------------------------------------------
(* State machine *)

NoOutput == [s \in {"left", "right"} |-> <<>>]

Init ==
    /\ backend \in {"raise", "stale"}
    /\ \/ /\ piece = "none"
          /\ plate \in Plates
          /\ symmetric \in BOOLEAN
          /\ source \in InputSegmentSets
          /\ scale = 100
          /\ shell = FittingMesh
          /\ table = "complete"
       \/ /\ piece \in Pieces
          /\ plate = DefaultPlate
          /\ symmetric = (piece \in SymmetricPieces)
          /\ source = <<>>
          /\ scale \in Scales
          /\ shell \in ShellMeshes
          /\ table \in Tables
    /\ scene = << >>
    /\ nextId = 1
    /\ pc = "start"
    /\ side = "left"
    /\ left_segments = <<>>
    /\ right_segments = <<>>
    /\ todo = <<>>
    /\ result = <<>>
    /\ stack = <<>>
    /\ parts = <<>>
    /\ pins = <<>>
    /\ splits = <<>>
    /\ output = NoOutput
    /\ leaves = 0
    /\ run = 1
    /\ prev = <<>>
    /\ auto_split \in BOOLEAN
    /\ history = << >>
    /\ files = <<>>
    /\ orch = OrchIdle
    /\ cord = CordIdle
    /\ cfg = CfgIdle

\* the scene with handle h bound to mesh m
Bind(sc, h, m) == [x \in (DOMAIN sc) \cup {h} |-> IF x = h THEN m ELSE sc[x]]

\* bpy.data.objects.remove(obj)
Remove(sc, h) == [x \in (DOMAIN sc) \ {h} |-> sc[x]]

\* mutant of the end of a boolean operation: the tool operand is left alive
consume_operand_kept(sc, obj2) == sc

\* bpy.data.objects.remove(obj2, do_unlink=True), the last statement of
\* boolean_union and of boolean_difference before the return of obj1
consume_operand(sc, obj2) == Remove(sc, obj2)

\* self.duplicate_object(obj, name) as the scene sees it: a fresh object h
SceneDuplicate(sc, obj, h) == Bind(sc, h, duplicate_object(sc[obj]))

\* self.boolean_difference(obj1, obj2) as the scene sees it: obj1 carries the
\* result and obj2 is removed
SceneDifference(sc, obj1, obj2) ==
    consume_operand(Bind(sc, obj1, boolean_difference(sc[obj1], sc[obj2])), obj2)

\* self.boolean_union(obj1, obj2) as the scene sees it
SceneUnion(sc, obj1, obj2) ==
    consume_operand(Bind(sc, obj1, boolean_union(sc[obj1], sc[obj2])), obj2)

\* create_alignment_pin_hole(obj, location, direction) as the scene sees it:
\* the cylinder AlignPinHole is created as the fresh object h and subtracted
ScenePinHole(sc, obj, h, location, direction) ==
    CHOOSE r \in {SceneDifference(with, obj, h) :
                    with \in {Bind(sc, h, PinHoleCylinder(location, direction,
                                                          PinDiameter, PinDepth))}} : TRUE

\* create_alignment_pin_post(obj, location, direction) as the scene sees it
ScenePinPost(sc, obj, h, location, direction) ==
    CHOOSE r \in {SceneUnion(with, obj, h) :
                    with \in {Bind(sc, h, PinPostCylinder(location, direction, PinDiameter,
                                                          PinDepth, PinClearance))}} : TRUE

\* the two halves of a split as the scene sees them: half1 is the fresh object
\* h, Cutter1 h + 1, half2 h + 2, Cutter2 h + 3; then the original is removed
SceneCut(sc, obj, ax, h) ==
    CHOOSE r \in {Remove(s6, obj) :
        s6 \in UNION {{SceneDifference(s5, h + 2, h + 3) :
        s5 \in UNION {{Bind(s4, h + 3, cutter2(sc[obj], ax)) :
        s4 \in UNION {{SceneDuplicate(s3, obj, h + 2) :
        s3 \in UNION {{SceneDifference(s2, h, h + 1) :
        s2 \in UNION {{Bind(s1, h + 1, cutter1(sc[obj], ax)) :
        s1 \in {SceneDuplicate(sc, obj, h)}}}}}}}}}}}} : TRUE

\* the pin loop of a split as the scene sees it: the cylinders are the fresh
\* objects h + 4 .. h + 7, in the order the loop creates them
ScenePins(sc, h, offs, d) ==
    CHOOSE r \in {ScenePinPost(s3, h + 2, h + 7, offs[2], d) :
        s3 \in UNION {{ScenePinHole(s2, h, h + 6, offs[2], d) :
        s2 \in UNION {{ScenePinPost(s1, h + 2, h + 5, offs[1], d) :
        s1 \in {ScenePinHole(sc, h, h + 4, offs[1], d)}}}}}} : TRUE

\* clear_scene() and the segmentation of the piece: the segments are created
\* as fresh objects, in dict order
GenerateSegments ==
    /\ pc = "start"
    /\ piece = "none"
    /\ nextId + Len(source) <= run * MaxHandles
    /\ scene' = [h \in nextId..(nextId + Len(source) - 1) |-> source[h - nextId + 1].mesh]
    /\ left_segments' = [i \in 1..Len(source) |->
                            [name |-> source[i].name, obj |-> nextId + i - 1]]
    /\ right_segments' = <<>>
    /\ nextId' = nextId + Len(source)
    /\ history' = [h \in nextId..(nextId + Len(source) - 1) |-> <<"csg", "finish">>]
    /\ pc' = IF symmetric THEN "generated" ELSE "ready"
    /\ UNCHANGED <<inputs, aside, files, side, todo, result, stack,
                   parts, pins, splits, output, leaves, run, prev>>

\* the defaults of the dims.get(key, default) calls of each generator, metres
\* written in millimetres
DefaultDimensions ==
    [chest |-> [width |-> 500 * TicksPerMM, height |-> 500 * TicksPerMM,
                depth |-> 320 * TicksPerMM],
     pauldron |-> [width |-> 200 * TicksPerMM, height |-> 150 * TicksPerMM,
                   depth |-> 160 * TicksPerMM],
     gauntlet |-> [hand_length |-> 210 * TicksPerMM, hand_width |-> 110 * TicksPerMM,
                   wrist_circumference |-> 190 * TicksPerMM],
     cuisse |-> [length |-> 470 * TicksPerMM, lower_circumference |-> 420 * TicksPerMM],
     greave |-> [length |-> 420 * TicksPerMM, upper_circumference |-> 420 * TicksPerMM],
     sabaton |-> [length |-> 290 * TicksPerMM, width |-> 120 * TicksPerMM,
                  ankle_circumference |-> 260 * TicksPerMM]]

\* the first dimension a piece reads
FirstDimension ==
    [chest |-> "width", pauldron |-> "width", gauntlet |-> "hand_length",
     cuisse |-> "length", greave |-> "length", sabaton |-> "length"]

\* the table measurements.get_armor_dimensions() returns in this run
GivenTable ==
    LET full == get_armor_dimensions(scale)
    IN  IF table = "no_entry"
        THEN [k \in (DOMAIN full) \ {piece} |-> full[k]]
        ELSE IF table = "no_dimension"
        THEN [k \in DOMAIN full |->
                 IF k = piece
                 THEN [d \in (DOMAIN full[k]) \ {FirstDimension[piece]} |-> full[k][d]]
                 ELSE full[k]]
        ELSE full

\* ArmorPieceGenerator.dimensions: all_dims.get(self.armor_type, {})
generator_dimensions(all_dims, armor_type) ==
    IF armor_type \in DOMAIN all_dims THEN all_dims[armor_type] ELSE << >>

\* dims.get(key, default)
dims_get(dims, key, default) == IF key \in DOMAIN dims THEN dims[key] ELSE default

\* the dimensions a generator works with: every dimension it reads, taken from
\* the table where present and from the default of its dims.get otherwise
WorkingTable ==
    LET dims == generator_dimensions(GivenTable, piece)
    IN  [k \in (DOMAIN GivenTable) \cup {piece} |->
            IF k = piece
            THEN [d \in DOMAIN DefaultDimensions[piece] |->
                     dims_get(dims, d, DefaultDimensions[piece][d])]
            ELSE GivenTable[k]]

\* the segments bored with create_cord_channel before their pins
CordSegments ==
    {FingerName(f, k) : f \in 0..3, k \in 0..2}
    \cup {<<"gauntlet_thumb_base", "_left">>, <<"gauntlet_thumb_tip", "_left">>}
    \cup {ToeName(i) : i \in 0..2}

\* the segments returned without a call of add_shardplate_details
UnfinishedSegments ==
    {FingerName(f, k) : f \in 0..3, k \in 0..2}
    \cup {<<"gauntlet_thumb_base", "_left">>, <<"gauntlet_thumb_tip", "_left">>}

\* the operations generate_segments applies to one segment, in call order
PartOps(part) ==
    <<"csg">>
    \o (IF part.name \in CordSegments THEN <<"cord">> ELSE <<>>)
    \o [i \in 1..Len(part.pins) |-> "pin"]
    \o (IF part.name \in UnfinishedSegments THEN <<>> ELSE <<"finish">>)

\* clear_scene() and generate_segments() of a piece: every segment of the seam
\* plan is built, its pins are cut and added, and it is stored under its name
GeneratePiece(plan) ==
    /\ pc = "start"
    /\ nextId + Len(plan) + Len(AllPins(plan)) <= run * MaxHandles
    /\ scene' = [h \in nextId..(nextId + Len(plan) - 1) |->
                    ApplyPins(plan[h - nextId + 1].body, plan[h - nextId + 1].pins)]
    /\ left_segments' = DictSetAll(<<>>, [i \in 1..Len(plan) |->
                                            [name |-> plan[i].name, obj |-> nextId + i - 1]])
    /\ right_segments' = <<>>
    /\ pins' = AllPins(plan)
    /\ nextId' = nextId + Len(plan) + Len(AllPins(plan))
    /\ history' = [h \in nextId..(nextId + Len(plan) - 1) |-> PartOps(plan[h - nextId + 1])]
    /\ pc' = IF symmetric THEN "generated" ELSE "ready"
    /\ UNCHANGED <<inputs, aside, files, side, todo,
                   result, stack, parts, splits, output, leaves, run, prev>>

generate_segments_chest ==
    /\ piece = "chest"
    /\ \E plan \in {chest_segments(WorkingTable, shell)} : GeneratePiece(plan)

generate_segments_pauldron ==
    /\ piece = "pauldron"
    /\ \E plan \in {pauldron_segments(WorkingTable, shell)} : GeneratePiece(plan)

generate_segments_gauntlet ==
    /\ piece = "gauntlet"
    /\ \E plan \in {gauntlet_segments(WorkingTable, shell)} : GeneratePiece(plan)

generate_segments_cuisse ==
    /\ piece = "cuisse"
    /\ \E plan \in {cuisse_segments(WorkingTable, shell)} : GeneratePiece(plan)

generate_segments_greave ==
    /\ piece = "greave"
    /\ \E plan \in {greave_segments(WorkingTable, shell)} : GeneratePiece(plan)

generate_segments_sabaton ==
    /\ piece = "sabaton"
    /\ \E plan \in {sabaton_segments(WorkingTable, shell)} : GeneratePiece(plan)

\* mirrored[right_name] = mirror_object(obj) for every item, in dict order
RECURSIVE MirrorInto(_, _, _)
MirrorInto(items, firstId, acc) ==
    IF items = <<>> THEN acc
    ELSE CHOOSE r \in {MirrorInto(rest, firstId + 1, acc1) :
                         rest \in {Tail(items)},
                         acc1 \in {DictSet(acc, ReplaceLeftRight(Head(items).name),
                                           firstId)}} : TRUE

\* _mirror_segments(left_segments)
MirrorSegments ==
    /\ pc = "generated"
    /\ nextId + Len(left_segments) <= run * MaxHandles
    /\ right_segments' = MirrorInto(left_segments, nextId, <<>>)
    /\ scene' = [h \in (DOMAIN scene) \cup (nextId..(nextId + Len(left_segments) - 1)) |->
                    IF h \in DOMAIN scene THEN scene[h]
                    ELSE mirror_object(scene[left_segments[h - nextId + 1].obj])]
    /\ history' = [h \in (DOMAIN scene) \cup (nextId..(nextId + Len(left_segments) - 1)) |->
                      IF h \in DOMAIN scene THEN history[h]
                      ELSE Append(history[left_segments[h - nextId + 1].obj], "mirror")]
    /\ nextId' = nextId + Len(left_segments)
    /\ pc' = "ready"
    /\ UNCHANGED <<inputs, aside, files, side, left_segments, todo,
                   result, stack, parts, pins, splits, output, leaves, run, prev>>

\* entry of split_for_build_plate(segments, ...) for the current side
SplitForBuildPlate ==
    /\ pc = "ready"
    /\ auto_split
    /\ todo' = IF side = "left" THEN left_segments ELSE right_segments
    /\ result' = <<>>
    /\ leaves' = 0
    /\ pc' = "iter"
    /\ UNCHANGED <<inputs, aside, history, files, scene, nextId, side,
                   left_segments, right_segments, stack, parts, pins, splits,
                   output, run, prev>>

\* parts = split_object_for_plate(obj, ..., base_name=seg_name): the call
CallSplitter ==
    /\ pc = "iter"
    /\ todo # <<>>
    /\ stack' = << [obj |-> Head(todo).obj, base_name |-> Head(todo).name, depth |-> 0] >>
    /\ parts' = <<>>
    /\ pc' = "splitter"
    /\ UNCHANGED <<inputs, aside, history, files, scene, nextId, side,
                   left_segments, right_segments, todo, result, pins, splits,
                   output, leaves, run, prev>>

Leaf(f) == [name |-> f.base_name, obj |-> f.obj, depth |-> f.depth]

\* mutant of the guard branch: the call at the cap calls itself again with
\* the same arguments instead of returning
ReturnAtCap_recurse ==
    /\ pc = "splitter"
    /\ stack # <<>>
    /\ depth_cap_reached(Head(stack).depth)
    /\ stack' = <<Head(stack)>> \o Tail(stack)
    /\ UNCHANGED <<inputs, aside, history, files, scene, nextId, pc, side,
                   left_segments, right_segments, todo, result, parts, pins,
                   splits, output, leaves, run, prev>>

\* if _depth > 4: return [(name, obj)]
ReturnAtCap ==
    /\ pc = "splitter"
    /\ stack # <<>>
    /\ depth_cap_reached(Head(stack).depth)
    /\ parts' = Append(parts, Leaf(Head(stack)))
    /\ stack' = Tail(stack)
    /\ UNCHANGED <<inputs, aside, history, files, scene, nextId, pc, side,
                   left_segments, right_segments, todo, result, pins, splits,
                   output, leaves, run, prev>>

\* if max_over <= 0: return [(base_name, obj)]
ReturnFits ==
    /\ pc = "splitter"
    /\ stack # <<>>
    /\ ~depth_cap_reached(Head(stack).depth)
    /\ fits_on_plate(scene[Head(stack).obj], plate)
    /\ parts' = Append(parts, Leaf(Head(stack)))
    /\ stack' = Tail(stack)
    /\ UNCHANGED <<inputs, aside, history, files, scene, nextId, pc, side,
                   left_segments, right_segments, todo, result, pins, splits,
                   output, leaves, run, prev>>

SplitEnabled ==
    /\ pc = "splitter"
    /\ stack # <<>>
    /\ ~depth_cap_reached(Head(stack).depth)
    /\ ~fits_on_plate(scene[Head(stack).obj], plate)
    /\ nextId + 8 <= run * MaxHandles

\* the two recursive calls, the one on half1 first
child_frames(f, h1, h2) ==
    << [obj |-> h1, base_name |-> Sec1(f.base_name), depth |-> f.depth + 1],
       [obj |-> h2, base_name |-> Sec2(f.base_name), depth |-> f.depth + 1] >>

\* the body of a split where the read of obj.dimensions after the removal of
\* obj yields the value the object had: duplicate, cut, remove the original,
\* pins, and the two recursive calls.  Handles: half1, Cutter1, half2,
\* Cutter2, then the four pin cylinders.  The bound names are the locals of
\* the function body, each assigned once.
Split ==
    /\ SplitEnabled
    /\ backend = "stale"
    /\ \E f \in {Head(stack)} :
       \E o \in {scene[Head(stack).obj]} :
       \E ax \in {split_axis(o, plate)} :
       \E cut1 \in {cut_half1(o, ax)} :
       \E cut2 \in {cut_half2(o, ax)} :
       \E dims \in {dimensions(o)} :
       \E offs \in {pin_offsets(o, ax, dims)} :
       \E cut \in {SceneCut(scene, f.obj, ax, nextId)} :
           /\ scene' = ScenePins(cut, nextId, offs, pin_direction(ax))
           /\ pins' = pins \o split_pins(o, ax, dims, f.base_name)
           /\ splits' = Append(splits, [name |-> f.base_name, axis |-> ax,
                                        depth |-> f.depth, parent |-> o,
                                        half1 |-> cut1, half2 |-> cut2])
           /\ stack' = child_frames(f, nextId, nextId + 2) \o Tail(stack)
           /\ history' = Bind(Bind(Remove(history, f.obj),
                                   nextId, history[f.obj] \o <<"cut", "pin", "pin">>),
                              nextId + 2, history[f.obj] \o <<"cut", "pin", "pin">>)
    /\ nextId' = nextId + 8
    /\ UNCHANGED <<inputs, aside, files, pc, side, left_segments,
                   right_segments, todo, result, parts, output, leaves, run, prev>>

\* the body of a split where the read of obj.dimensions after the removal of
\* obj raises ReferenceError: the halves are cut, the original is removed, no
\* pin is added and the exception leaves every pending call
SplitRaise ==
    /\ SplitEnabled
    /\ backend = "raise"
    /\ \E f \in {Head(stack)} :
       \E o \in {scene[Head(stack).obj]} :
       \E ax \in {split_axis(o, plate)} :
       \E cut1 \in {cut_half1(o, ax)} :
       \E cut2 \in {cut_half2(o, ax)} :
           /\ scene' = SceneCut(scene, f.obj, ax, nextId)
           /\ history' = Bind(Bind(Remove(history, f.obj),
                                   nextId, Append(history[f.obj], "cut")),
                              nextId + 2, Append(history[f.obj], "cut"))
    /\ nextId' = nextId + 4
    /\ stack' = <<>>
    /\ pc' = "raised"
    /\ UNCHANGED <<inputs, aside, files, side, left_segments,
                   right_segments, todo, result, parts, pins, splits, output,
                   leaves, run, prev>>

\* for part_name, part_obj in parts: result[part_name] = part_obj
StoreParts ==
    /\ pc = "splitter"
    /\ stack = <<>>
    /\ result' = DictSetAll(result, parts)
    /\ leaves' = leaves + Len(parts)
    /\ todo' = Tail(todo)
    /\ pc' = "iter"
    /\ UNCHANGED <<inputs, aside, history, files, scene, nextId, side,
                   left_segments, right_segments, stack, parts, pins, splits,
                   output, run, prev>>

\* return result: the dict replaces `segments` of the side
ReturnResult ==
    /\ pc = "iter"
    /\ todo = <<>>
    /\ output' = [output EXCEPT ![side] = result]
    /\ pc' = "export"
    /\ UNCHANGED <<inputs, aside, history, files, scene, nextId, side,
                   left_segments, right_segments, todo, result, stack, parts,
                   pins, splits, leaves, run, prev>>

\* mutant of the branch without auto_split: the segments are split all the same
SkipSplit_split_anyway ==
    /\ pc = "ready"
    /\ ~auto_split
    /\ todo' = IF side = "left" THEN left_segments ELSE right_segments
    /\ result' = <<>>
    /\ leaves' = 0
    /\ pc' = "iter"
    /\ UNCHANGED <<inputs, aside, history, files, scene, nextId, side,
                   left_segments, right_segments, stack, parts, pins, splits,
                   output, run, prev>>

\* if auto_split: is false: `segments` of the side stays the generated dict
SkipSplit ==
    /\ pc = "ready"
    /\ ~auto_split
    /\ output' = [output EXCEPT ![side] =
                     IF side = "left" THEN left_segments ELSE right_segments]
    /\ pc' = "export"
    /\ UNCHANGED <<inputs, aside, history, files, scene, nextId, side,
                   left_segments, right_segments, todo, result, stack, parts,
                   pins, splits, leaves, run, prev>>

\* the `name` of the generator: the piece type, or "piece" for a plain one
BaseName == IF piece = "none" THEN "piece" ELSE piece

MeshExtension == ".stl"

\* mutant of the file name: the name of the piece instead of the segment's
Paths_piece_name(directory, segments) ==
    [i \in 1..Len(segments) |->
        [directory |-> directory, file |-> <<BaseName, MeshExtension>>,
         obj |-> segments[i].obj]]

\* filepath = directory / f"{seg_name}.stl", for every item in dict order
Paths(directory, segments) ==
    [i \in 1..Len(segments) |->
        [directory |-> directory, file |-> Append(segments[i].name, MeshExtension),
         obj |-> segments[i].obj]]

\* export_segments(segments, output_dir): one file per segment under
\* output_dir / self.name
ExportSegments ==
    /\ pc = "export"
    /\ ~symmetric
    /\ files' = files \o Paths(<<BaseName>>, output[side])
    /\ pc' = "done"
    /\ UNCHANGED <<inputs, aside, history, scene, nextId, side,
                   left_segments, right_segments, todo, result, stack, parts,
                   pins, splits, output, leaves, run, prev>>

\* the export loop of export_pair_segmented for one side, under
\* output_dir / f"{base_name}_{side_label}", and the next side
ExportPairSide ==
    /\ pc = "export"
    /\ symmetric
    /\ files' = files \o Paths(<<BaseName, "_" \o side>>, output[side])
    /\ IF side = "left"
       THEN side' = "right" /\ pc' = "ready"
       ELSE side' = side /\ pc' = "done"
    /\ UNCHANGED <<inputs, aside, history, scene, nextId,
                   left_segments, right_segments, todo, result, stack, parts,
                   pins, splits, output, leaves, run, prev>>

Names(d) == [i \in 1..Len(d) |-> d[i].name]

\* what a run produced: the names per side and the axis of every split
Outcome ==
    [names |-> [s \in {"left", "right"} |-> Names(output[s])],
     axes |-> [i \in 1..Len(splits) |-> <<splits[i].name, splits[i].axis>>]]

\* a second generation run on the same input: the orchestrator clears the
\* scene and generates the piece again
Regenerate ==
    /\ pc = "done"
    /\ run < MaxRuns
    /\ run' = run + 1
    /\ prev' = Outcome
    /\ pc' = "start"
    /\ scene' = << >>
    /\ side' = "left"
    /\ left_segments' = <<>> /\ right_segments' = <<>>
    /\ todo' = <<>> /\ result' = <<>> /\ stack' = <<>> /\ parts' = <<>>
    /\ pins' = <<>> /\ splits' = <<>> /\ output' = NoOutput /\ leaves' = 0
    /\ history' = << >> /\ files' = <<>>
    /\ UNCHANGED <<inputs, aside, nextId>>

Next ==
    \/ GenerateSegments
    \/ generate_segments_chest
    \/ generate_segments_pauldron
    \/ generate_segments_gauntlet
    \/ generate_segments_cuisse
    \/ generate_segments_greave
    \/ generate_segments_sabaton
    \/ MirrorSegments
    \/ SplitForBuildPlate
    \/ CallSplitter
    \/ ReturnAtCap
    \/ ReturnFits
    \/ Split
    \/ SplitRaise
    \/ StoreParts
    \/ ReturnResult
    \/ SkipSplit
    \/ ExportSegments
    \/ ExportPairSide
    \/ Regenerate

Spec == Init /\ [][Next]_vars

\* the steps of split_for_build_plate and of the splitter it calls
SplitterStep ==
    \/ SplitForBuildPlate
    \/ CallSplitter
    \/ ReturnAtCap
    \/ ReturnFits
    \/ Split
    \/ SplitRaise
    \/ StoreParts
    \/ ReturnResult

\* the splitter runs in one thread, which goes on until it returns or raises
FairSpec == Spec /\ WF_vars(SplitterStep)

-----------------------------------------------------------------------------
(* Configuration files: ShardplateConfig.save and ShardplateConfig.load *)

\* Python values of the configuration fields.  A float is m * 10^-e with no
\* trailing zero in m (e >= 0); e = -1 marks an infinity of the sign of m and
\* e = -2 a NaN.  A string is the sequence of its pieces, a piece being a
\* run of ordinary characters or one of the two characters JSON escapes.
\* A value is a record of its type t, its characters s and its number m, e.
PyStr(chunks) == [t |-> "str", s |-> chunks, m |-> 0, e |-> 0]
PyInt(n) == [t |-> "int", s |-> <<>>, m |-> n, e |-> 0]
PyFloat(m, e) == [t |-> "float", s |-> <<>>, m |-> m, e |-> e]
PyBool(b) == [t |-> "bool", s |-> <<>>, m |-> IF b THEN 1 ELSE 0, e |-> 0]
PyNone == [t |-> "none", s |-> <<>>, m |-> 0, e |-> 0]
PyInf == PyFloat(1, -1)
PyNaN == PyFloat(0, -2)

Quote == "\""
Backslash == "\\"

DigitChars == <<"0", "1", "2", "3", "4", "5", "6", "7", "8", "9">>

RECURSIVE Pow10(_)
Pow10(e) == IF e = 0 THEN 1 ELSE 10 * Pow10(e - 1)

Abs(n) == IF n < 0 THEN 0 - n ELSE n

\* the decimal digits of n >= 0
RECURSIVE Digits(_)
Digits(n) ==
    IF n < 10 THEN <<DigitChars[n + 1]>>
    ELSE Append(Digits(n \div 10), DigitChars[(n % 10) + 1])

\* the digits of n >= 0 padded with zeros to width w
RECURSIVE PadDigits(_, _)
PadDigits(n, w) ==
    IF w = 0 THEN <<>> ELSE Append(PadDigits(n \div 10, w - 1), DigitChars[(n % 10) + 1])

\* mutant of the string encoder: quotes and backslashes are written as they are
RECURSIVE json_escape_none(_)
json_escape_none(chunks) ==
    IF chunks = <<>> THEN <<>> ELSE <<Head(chunks)>> \o json_escape_none(Tail(chunks))

\* json.dump of the characters of a string: a quote or a backslash gets a
\* backslash in front
RECURSIVE json_escape(_)
json_escape(chunks) ==
    IF chunks = <<>> THEN <<>>
    ELSE (IF Head(chunks) \in {Quote, Backslash}
          THEN <<Backslash, Head(chunks)>>
          ELSE <<Head(chunks)>>) \o json_escape(Tail(chunks))

\* float.__repr__ as json.dump writes it
float_repr(m, e) ==
    IF e = -2 THEN <<"NaN">>
    ELSE IF e = -1 THEN (IF m < 0 THEN <<"-Infinity">> ELSE <<"Infinity">>)
    ELSE (IF m < 0 THEN <<"-">> ELSE <<>>)
         \o Digits(Abs(m) \div Pow10(e)) \o <<".">>
         \o (IF e = 0 THEN <<"0">> ELSE PadDigits(Abs(m) % Pow10(e), e))

\* json.dump of one value
json_dump_value(x) ==
    IF x.t = "str" THEN <<Quote>> \o json_escape(x.s) \o <<Quote>>
    ELSE IF x.t = "int" THEN (IF x.m < 0 THEN <<"-">> ELSE <<>>) \o Digits(Abs(x.m))
    ELSE IF x.t = "float" THEN float_repr(x.m, x.e)
    ELSE IF x.t = "bool" THEN (IF x.m = 1 THEN <<"true">> ELSE <<"false">>)
    ELSE <<"null">>

\* the characters of a JSON string up to its closing quote, unescaped
RECURSIVE json_unescape(_)
json_unescape(text) ==
    IF text = <<>> \/ Head(text) = Quote THEN <<>>
    ELSE IF Head(text) = Backslash /\ Len(text) >= 2
    THEN <<text[2]>> \o json_unescape(Tail(Tail(text)))
    ELSE <<Head(text)>> \o json_unescape(Tail(text))

DigitValue(c) == (CHOOSE i \in 1..10 : DigitChars[i] = c) - 1

\* the number written by a sequence of digits
RECURSIVE DigitsValue(_)
DigitsValue(ds) ==
    IF ds = <<>> THEN 0
    ELSE 10 * DigitsValue(SubSeq(ds, 1, Len(ds) - 1)) + DigitValue(ds[Len(ds)])

\* m * 10^-e without trailing zeros in m
RECURSIVE Normal(_, _)
Normal(m, e) == IF e > 0 /\ m % 10 = 0 THEN Normal(m \div 10, e - 1) ELSE PyFloat(m, e)

\* json.load of a number: a float if it has a fraction, else an int
json_load_number(text) ==
    LET neg == Head(text) = "-"
        body == IF neg THEN Tail(text) ELSE text
        dot == {i \in 1..Len(body) : body[i] = "."}
        sgn(n) == IF neg THEN 0 - n ELSE n
    IN  IF dot = {} THEN PyInt(sgn(DigitsValue(body)))
        ELSE LET d == CHOOSE i \in dot : TRUE
                 frac == SubSeq(body, d + 1, Len(body))
             IN  Normal(sgn(DigitsValue(SubSeq(body, 1, d - 1)) * Pow10(Len(frac))
                            + DigitsValue(frac)),
                        Len(frac))

\* json.load of one value
json_load_value(text) ==
    IF Head(text) = Quote THEN PyStr(json_unescape(Tail(text)))
    ELSE IF text = <<"true">> THEN PyBool(TRUE)
    ELSE IF text = <<"false">> THEN PyBool(FALSE)
    ELSE IF text = <<"null">> THEN PyNone
    ELSE IF text = <<"NaN">> THEN PyNaN
    ELSE IF text = <<"Infinity">> THEN PyInf
    ELSE IF text = <<"-Infinity">> THEN PyFloat(-1, -1)
    ELSE json_load_number(text)

\* the defaults of the dataclasses ColorConfig, SizeConfig, GenerationConfig
ColorDefaults ==
    [primary_color |-> PyStr(<<"#708090">>), secondary_color |-> PyStr(<<"#C0C0C0">>),
     accent_color |-> PyStr(<<"#FFD700">>), glow_color |-> PyStr(<<"#00BFFF">>),
     metallic |-> PyFloat(8, 1), roughness |-> PyFloat(3, 1),
     emission_strength |-> PyFloat(0, 0)]

SizeDefaults ==
    [size_name |-> PyStr(<<"M">>), height |-> PyNone, chest_circumference |-> PyNone,
     waist_circumference |-> PyNone, hip_circumference |-> PyNone,
     shoulder_width |-> PyNone, arm_length |-> PyNone, leg_length |-> PyNone,
     head_circumference |-> PyNone, hand_length |-> PyNone, foot_length |-> PyNone,
     print_scale |-> PyFloat(1, 0), clearance_mm |-> PyFloat(20, 0)]

GenerationDefaults ==
    [generate_helmet |-> PyBool(TRUE), generate_chest |-> PyBool(TRUE),
     generate_pauldrons |-> PyBool(TRUE), generate_gauntlets |-> PyBool(TRUE),
     generate_vambraces |-> PyBool(TRUE), generate_cuisses |-> PyBool(TRUE),
     generate_greaves |-> PyBool(TRUE), generate_sabatons |-> PyBool(TRUE),
     include_strap_mounts |-> PyBool(TRUE), detail_level |-> PyInt(2),
     split_for_printing |-> PyBool(TRUE), hollow_pieces |-> PyBool(TRUE),
     segmented_output |-> PyBool(TRUE), build_plate_x |-> PyFloat(256, 0),
     build_plate_y |-> PyFloat(256, 0), build_plate_z |-> PyFloat(256, 0),
     auto_split_for_plate |-> PyBool(TRUE), output_format |-> PyStr(<<"stl">>),
     output_directory |-> PyStr(<<"./output">>)]

DefaultName == PyStr(<<"my_shardplate">>)

\* ShardplateConfig()
DefaultConfig ==
    [name |-> DefaultName, colors |-> ColorDefaults, size |-> SizeDefaults,
     generation |-> GenerationDefaults]

\* json.dump(config_dict): each section is asdict of its dataclass
save(c) ==
    [name |-> json_dump_value(c.name),
     colors |-> [f \in DOMAIN c.colors |-> json_dump_value(c.colors[f])],
     size |-> [f \in DOMAIN c.size |-> json_dump_value(c.size[f])],
     generation |-> [f \in DOMAIN c.generation |-> json_dump_value(c.generation[f])]]

\* json.load of an object
json_load_object(o) == [f \in DOMAIN o |-> json_load_value(o[f])]

\* Dataclass(**kwargs): a field not given takes its default
FromKwargs(defaults, kwargs) ==
    [f \in DOMAIN defaults |-> IF f \in DOMAIN kwargs THEN kwargs[f] ELSE defaults[f]]

\* ShardplateConfig.load: data.get(section, default) and the constructors
load(file) ==
    [name |-> IF "name" \in DOMAIN file THEN json_load_value(file.name) ELSE DefaultName,
     colors |-> FromKwargs(ColorDefaults,
                           IF "colors" \in DOMAIN file THEN json_load_object(file.colors)
                           ELSE << >>),
     size |-> FromKwargs(SizeDefaults,
                         IF "size" \in DOMAIN file THEN json_load_object(file.size)
                         ELSE << >>),
     generation |-> FromKwargs(GenerationDefaults,
                               IF "generation" \in DOMAIN file
                               THEN json_load_object(file.generation) ELSE << >>)]

\* the values a configuration field is given
StrValues == {PyStr(<<>>), PyStr(<<"XL">>), PyStr(<<"a", Quote, "b">>),
              PyStr(<<"C:", Backslash, "out", Backslash, Quote>>)}
FloatValues == {PyFloat(0, 0), PyFloat(5, 1), PyFloat(-125, 2), PyFloat(2560, 0),
                PyFloat(1005, 3), PyInf, PyFloat(-1, -1), PyNaN, PyInt(1)}
IntValues == {PyInt(0), PyInt(3), PyInt(-1), PyInt(10)}
BoolValues == {PyBool(TRUE), PyBool(FALSE)}

\* the values of the type of a field, read off its default
ValuesLike(default) ==
    IF default.t = "str" THEN StrValues
    ELSE IF default.t = "float" THEN FloatValues
    ELSE IF default.t = "int" THEN IntValues
    ELSE IF default.t = "bool" THEN BoolValues
    ELSE FloatValues \cup {PyNone}

Sections == {"colors", "size", "generation"}

\* the configurations saved: the default one with one field set
Configs ==
    {[DefaultConfig EXCEPT !.name = v] : v \in StrValues}
    \cup UNION {UNION {{[DefaultConfig EXCEPT ![sec][f] = v] :
                          v \in ValuesLike(DefaultConfig[sec][f])} :
                       f \in DOMAIN DefaultConfig[sec]} : sec \in Sections}

\* the pipeline at rest, for the specifications that do not run it
PipelineAtRest ==
    /\ backend = "stale" /\ plate = DefaultPlate /\ symmetric = FALSE
    /\ source = <<>> /\ piece = "none" /\ scale = 100 /\ shell = FittingMesh
    /\ auto_split = TRUE /\ table = "complete"
    /\ scene = << >> /\ nextId = 1 /\ pc = "start" /\ side = "left"
    /\ left_segments = <<>> /\ right_segments = <<>> /\ todo = <<>>
    /\ result = <<>> /\ stack = <<>> /\ parts = <<>> /\ pins = <<>>
    /\ splits = <<>> /\ output = NoOutput /\ leaves = 0 /\ run = 1
    /\ prev = <<>> /\ history = << >> /\ files = <<>>

pipeline == <<inputs, scene, nextId, pc, side, left_segments, right_segments,
              todo, result, stack, parts, pins, splits, output, leaves, run, prev,
              history, files>>

ConfigInit ==
    /\ PipelineAtRest
    /\ orch = OrchIdle /\ cord = CordIdle
    /\ cfg \in {[pc |-> "made", config |-> c] : c \in Configs}

\* config.save(filepath)
Save ==
    /\ cfg.pc = "made"
    /\ cfg' = [pc |-> "saved", config |-> cfg.config, file |-> save(cfg.config)]
    /\ UNCHANGED <<pipeline, orch, cord>>

\* ShardplateConfig.load(filepath)
Load ==
    /\ cfg.pc = "saved"
    /\ cfg' = [pc |-> "loaded", config |-> cfg.config, file |-> cfg.file,
               loaded |-> load(cfg.file)]
    /\ UNCHANGED <<pipeline, orch, cord>>

ConfigNext == Save \/ Load

ConfigSpec == ConfigInit /\ [][ConfigNext]_vars

-----------------------------------------------------------------------------
(* Cord channels: BlenderContext.create_cord_channel, in millimetres *)

CordDiameter == 2                        \* diameter: float = 0.002

Dot(u, v) == u[1] * v[1] + u[2] * v[2] + u[3] * v[3]
Cross(u, v) == <<u[2] * v[3] - u[3] * v[2], u[3] * v[1] - u[1] * v[3],
                 u[1] * v[2] - u[2] * v[1]>>
Minus(u, v) == <<u[1] - v[1], u[2] - v[2], u[3] - v[3]>>

\* math.sqrt of a square, by bisection
RECURSIVE SqrtBetween(_, _, _)
SqrtBetween(x, lo, hi) ==
    IF lo >= hi THEN lo
    ELSE LET mid == (lo + hi + 1) \div 2
         IN  IF mid * mid <= x THEN SqrtBetween(x, mid, hi) ELSE SqrtBetween(x, lo, mid - 1)

Sqrt(x) == SqrtBetween(x, 0, IF x < 4096 THEN x ELSE 4096)

\* The axis of the cylinder after rotation_euler = (rx, 0, rz) is applied to
\* its Z axis: (sin rx sin rz, -sin rx cos rz, cos rx), given here up to a
\* positive factor.  With d = end - start of length l and h = sqrt(dx^2 + dz^2):
\* rx = atan2(dy / l, h / l) and rz = atan2(-dx / l, dz / l), so sin rx = dy / l,
\* cos rx = h / l, and sin rz = -dx / h, cos rz = dz / h when h > 0, while
\* rz = atan2(-0.0, 0.0) = -0.0 when h = 0.  No rotation is made when
\* |dz| / l >= 0.999.
channel_axis(d, length) ==
    LET h == Sqrt(d[1] * d[1] + d[3] * d[3])
    IN  IF length > 0 /\ Abs(d[3]) * 1000 < 999 * length
        THEN IF h > 0 THEN <<0 - d[1] * d[2], 0 - d[2] * d[3], h * h>>
             ELSE <<0, 0 - d[2], 0>>
        ELSE <<0, 0, 1>>

\* the cylinder that create_cord_channel subtracts
cord_channel(start, end, diameter) ==
    LET d == Minus(end, start)
        length == Sqrt(Dot(d, d))
    IN  [location |-> <<(start[1] + end[1]) \div 2, (start[2] + end[2]) \div 2,
                        (start[3] + end[3]) \div 2>>,
         diameter |-> diameter,
         depth |-> length + diameter,
         axis |-> channel_axis(d, length)]

\* the directions bored: along the axes, in the coordinate planes, and close
\* to the Z axis; all of whole length and with even coordinates
CordDirections ==
    {<<2, 0, 0>>, <<-2, 0, 0>>, <<12, 0, 0>>, <<-12, 0, 0>>,
     <<0, 2, 0>>, <<0, -2, 0>>, <<0, 12, 0>>, <<0, -12, 0>>,
     <<0, 0, 2>>, <<0, 0, -2>>, <<0, 0, 12>>, <<0, 0, -12>>,
     <<6, 8, 0>>, <<-8, 6, 0>>, <<0, 6, 8>>, <<0, -8, 6>>, <<6, 0, 8>>, <<8, 0, -6>>,
     <<90, 0, 2024>>}

CordStarts == {<<0, 0, 0>>, <<10, -4, 6>>, <<-8, 20, 0>>, <<2, 2, -30>>}

CordInit ==
    /\ PipelineAtRest
    /\ orch = OrchIdle /\ cfg = CfgIdle
    /\ \E start \in CordStarts, d \in CordDirections :
          cord = [pc |-> "called", start |-> start,
                  end |-> <<start[1] + d[1], start[2] + d[2], start[3] + d[3]>>]

\* ctx.create_cord_channel(obj, start, end, diameter=0.002)
create_cord_channel ==
    /\ cord.pc = "called"
    /\ cord' = [pc |-> "bored", start |-> cord.start, end |-> cord.end,
                channel |-> cord_channel(cord.start, cord.end, CordDiameter)]
    /\ UNCHANGED <<pipeline, orch, cfg>>

CordNext == create_cord_channel

CordSpec == CordInit /\ [][CordNext]_vars

-----------------------------------------------------------------------------
(* The orchestrator: ShardplateGenerator.generate_all *)

\* the pieces in the order generate_all generates them
PieceOrder == <<"helmet", "chest", "pauldrons", "gauntlets", "vambraces",
                "cuisses", "greaves", "sabatons">>

\* the _base_name the pair generators are constructed with
PairBaseName ==
    [pauldrons |-> "pauldron", gauntlets |-> "gauntlet", vambraces |-> "vambrace",
     cuisses |-> "cuisse", greaves |-> "greave", sabatons |-> "sabaton"]

DetailLevels == 0..3
OrchPlates == {<<256, 256, 256>>, <<180, 180, 180>>}

\* GenerationConfig: the generate_<piece> flags as the set of enabled pieces
GenerationConfigs ==
    [generate : SUBSET {PieceOrder[i] : i \in 1..Len(PieceOrder)},
     include_strap_mounts : {TRUE},
     detail_level : DetailLevels,
     split_for_printing : BOOLEAN,
     auto_split_for_plate : BOOLEAN,
     build_plate : OrchPlates]

\* no build-plate splitter was called on the exported mesh
NotSplit == <<>>

\* ctx.export_stl(obj, output_dir / f"{name}.stl") of a mesh that came from
\* generate / generate_printable_parts / generate_pair and finalize
ExportedMesh(name, gen) ==
    [file |-> <<name, MeshExtension>>, piece |-> gen.piece,
     detail_level |-> gen.detail_level, split_plate |-> NotSplit]

\* the position of generate_all after the `if` of piece i: the next enabled
\* piece, or the saving of the configuration
RECURSIVE NextStep(_, _)
NextStep(gen_config, i) ==
    IF i > Len(PieceOrder) THEN "save"
    ELSE IF PieceOrder[i] \in gen_config.generate THEN PieceOrder[i]
    ELSE NextStep(gen_config, i + 1)

IndexOf(p) == CHOOSE i \in 1..Len(PieceOrder) : PieceOrder[i] = p

OrchInit ==
    /\ PipelineAtRest
    /\ cord = CordIdle /\ cfg = CfgIdle
    /\ \E gen_config \in GenerationConfigs :
          orch = [pc |-> "new", config |-> gen_config, exported |-> <<>>,
                  supplied |-> {}, saved |-> FALSE]

\* generate_all up to its first _generate_ call
generate_all ==
    /\ orch.pc = "new"
    /\ orch' = [orch EXCEPT !.pc = NextStep(orch.config, 1)]
    /\ UNCHANGED <<pipeline, cord, cfg>>

\* the constructor call of the _generate_ methods: the configuration fields
\* handed to the piece generator
Generator(p, extra) ==
    [piece |-> p, include_straps |-> orch.config.include_strap_mounts,
     detail_level |-> orch.config.detail_level,
     supplied |-> {"include_strap_mounts", "detail_level"} \cup extra]

\* the end of a _generate_ method and the `if`s of generate_all after it
Generated(p, gen, names) ==
    /\ orch' = [orch EXCEPT
          !.pc = NextStep(orch.config, IndexOf(p) + 1),
          !.exported = @ \o [i \in 1..Len(names) |-> ExportedMesh(names[i], gen)],
          !.supplied = @ \cup gen.supplied]
    /\ UNCHANGED <<pipeline, cord, cfg>>

\* helmet and chest: the front and back halves, or the piece as one file
GenerateWhole(p, extra) ==
    /\ \E gen \in {Generator(p, extra)} :
          Generated(p, gen,
                    IF orch.config.split_for_printing
                    THEN <<p \o "_front", p \o "_back">>
                    ELSE <<p>>)

\* the pairs: export_pair writes <base>_left and <base>_right
GeneratePair(p) ==
    /\ \E gen \in {Generator(p, {})} :
          Generated(p, gen, <<PairBaseName[p] \o "_left", PairBaseName[p] \o "_right">>)

generate_helmet ==
    /\ orch.pc = "helmet"
    /\ GenerateWhole("helmet", {"split_for_printing"})

generate_chest ==
    /\ orch.pc = "chest"
    /\ GenerateWhole("chest", {"split_for_printing"})

generate_pauldrons ==
    /\ orch.pc = "pauldrons"
    /\ GeneratePair("pauldrons")

generate_gauntlets ==
    /\ orch.pc = "gauntlets"
    /\ GeneratePair("gauntlets")

generate_vambraces ==
    /\ orch.pc = "vambraces"
    /\ GeneratePair("vambraces")

generate_cuisses ==
    /\ orch.pc = "cuisses"
    /\ GeneratePair("cuisses")

generate_greaves ==
    /\ orch.pc = "greaves"
    /\ GeneratePair("greaves")

generate_sabatons ==
    /\ orch.pc = "sabatons"
    /\ GeneratePair("sabatons")

\* self.config.save(output_dir / "config.json") and the return
save_config ==
    /\ orch.pc = "save"
    /\ orch' = [orch EXCEPT !.pc = "done", !.saved = TRUE]
    /\ UNCHANGED <<pipeline, cord, cfg>>

OrchNext ==
    \/ generate_all
    \/ generate_helmet
    \/ generate_chest
    \/ generate_pauldrons
    \/ generate_gauntlets
    \/ generate_vambraces
    \/ generate_cuisses
    \/ generate_greaves
    \/ generate_sabatons
    \/ save_config

OrchSpec == OrchInit /\ [][OrchNext]_vars

-----------------------------------------------------------------------------
TypeOK ==
    /\ pc \in {"start", "generated", "ready", "iter", "splitter", "export", "done",
              "raised"}
    /\ DOMAIN history = DOMAIN scene
    /\ \A i \in 1..Len(stack) : stack[i].obj \in DOMAIN scene
    /\ \A i \in 1..Len(parts) : parts[i].obj \in DOMAIN scene

-----------------------------------------------------------------------------
(* Notions used by the properties *)

\* every extent of the mesh is at most the plate bound
FitsPlate(o) ==
    \A i \in Axes : dimensions(o)[i] * MMPerMetre <= plate[i] * TicksPerMetre

\* extent minus plate bound along axis i, in the scale of the fit test
OversizeOf(o, i) == dimensions(o)[i] * MMPerMetre - plate[i] * TicksPerMetre

\* the top-level call of the splitter is running / has returned its list
InCall == pc = "splitter" /\ stack # <<>>
Returned == pc = "splitter" /\ stack = <<>>

\* base_name of the running top-level call
RootName == Head(todo).name

IsPrefix(s, t) == Len(s) <= Len(t) /\ \A i \in 1..Len(s) : s[i] = t[i]

\* the tokens of name after the first n
Suffix(name, n) == [i \in 1..(Len(name) - n) |-> name[n + i]]

SecTokens == {"_sec1", "_sec2"}

\* name is base followed by exactly n _sec suffixes
HasLineage(name, base, n) ==
    /\ IsPrefix(base, name)
    /\ Len(name) = Len(base) + n
    /\ \A i \in 1..n : name[Len(base) + i] \in SecTokens

-----------------------------------------------------------------------------
\* C1 (fit invariant): every (name, mesh) pair returned by a top-level call
\* of split_object_for_plate has all three extents within the plate bounds,
\* or carries five _sec suffixes after base_name (lineage depth 5).
C1_FitInvariant ==
    pc = "splitter" =>
        \A i \in 1..Len(parts) :
            \/ FitsPlate(scene[parts[i].obj])
            \/ parts[i].depth = 5 /\ HasLineage(parts[i].name, RootName, 5)

\* a call has returned a leaf of lineage depth 5 that is still oversize
C1_Witness ==
    /\ Returned
    /\ \E i \in 1..Len(parts) :
          parts[i].depth = 5 /\ ~FitsPlate(scene[parts[i].obj])
    /\ \E i \in 1..Len(parts) : FitsPlate(scene[parts[i].obj])

\* C2 (fit-check is a no-op): when the mesh of a call has no oversize axis,
\* the call returns the one pair (base_name, same handle): nothing is created,
\* no pin is added, the mesh is untouched and no handle leaves the scene.
C2_FitCheckNoOp ==
    [][ (InCall /\ FitsPlate(scene[Head(stack).obj])) =>
          /\ parts' = Append(parts, [name |-> Head(stack).base_name,
                                     obj |-> Head(stack).obj,
                                     depth |-> Head(stack).depth])
          /\ (Head(stack).depth = 0 => Len(parts') = 1)
          /\ stack' = Tail(stack)
          /\ scene' = scene
          /\ nextId' = nextId
          /\ pins' = pins
          /\ splits' = splits ]_vars

\* a top-level call on a mesh with an extent equal to the plate bound has
\* returned that mesh alone
C2_Witness ==
    /\ Returned
    /\ Len(parts) = 1
    /\ parts[1].depth = 0
    /\ parts[1].obj = Head(todo).obj
    /\ \E i \in Axes : OversizeOf(scene[parts[1].obj], i) = 0
    /\ pins = <<>>

\* C3 (depth cap): a top-level call returns at most 32 segments, none of
\* lineage deeper than 5, and a call that reaches the cap with an oversize
\* mesh returns that mesh as a segment: no exception, no cut, no connector.
C3_DepthCap ==
    [][ /\ Len(parts') <= 32
        /\ \A i \in 1..Len(parts') : parts'[i].depth <= 5
        /\ (InCall /\ Head(stack).depth = 5) =>
              /\ parts' = Append(parts, [name |-> Head(stack).base_name,
                                         obj |-> Head(stack).obj,
                                         depth |-> 5])
              /\ pc' = "splitter"
              /\ scene' = scene
              /\ pins' = pins
              /\ splits' = splits ]_vars

\* a call has returned 32 segments, an oversize one among them
C3_Witness ==
    /\ Returned
    /\ Len(parts) = 32
    /\ \E i \in 1..32 : ~FitsPlate(scene[parts[i].obj])

C6_Naming ==
    pc = "splitter" =>
        /\ \A i \in 1..Len(parts) :
              HasLineage(parts[i].name, RootName, parts[i].depth)
        /\ \A i, j \in 1..Len(parts) :
              i # j => /\ parts[i].name # parts[j].name
                       /\ ~IsPrefix(parts[i].name, parts[j].name)

\* a call has returned leaves of different lineage depths
C6_Witness ==
    /\ Returned
    /\ \E i, j \in 1..Len(parts) :
          parts[i].depth >= 1 /\ parts[j].depth > parts[i].depth

\* C7 (split-axis selection): every cut is along an axis of largest
\* (extent - plate bound), which is positive; extents (300,200,100) against
\* plate (256,256,256) are cut along X into exactly base_sec1 and base_sec2.
C7_SplitAxis ==
    /\ \A i \in 1..Len(splits) :
          /\ OversizeOf(splits[i].parent, splits[i].axis) > 0
          /\ \A a \in Axes : OversizeOf(splits[i].parent, a)
                                <= OversizeOf(splits[i].parent, splits[i].axis)
    /\ (Returned /\ side = "left" /\ source = << Seg(<<"base">>, WideMesh) >>
          /\ plate = <<256, 256, 256>> /\ backend = "stale") =>
          /\ [i \in 1..Len(parts) |-> parts[i].name]
                = << <<"base", "_sec1">>, <<"base", "_sec2">> >>
          /\ Len(splits) = 1
          /\ splits[1].axis = 1

\* a cut was made along an axis that is not the axis of largest extent
C7_Witness ==
    \E i \in 1..Len(splits) :
        dimensions(splits[i].parent)[splits[i].axis]
            < Max3(dimensions(splits[i].parent))

\* the axis a pin direction points along, and the opposite direction
DirectionAxis(d) == CHOOSE a \in Axes : d[a] # 0
Negated(d) == [i \in Axes |-> 0 - d[i]]

\* equal coordinates perpendicular to the hole's axis
SamePlanarLocation(h, q) ==
    \A a \in Axes \ {DirectionAxis(h.direction)} : h.location[a] = q.location[a]

\* the posts on the mate of hole h at the hole's planar location
MatingPosts(h) ==
    {j \in 1..Len(pins) :
        /\ pins[j].kind = "post"
        /\ pins[j].side = h.side
        /\ pins[j].seg = h.mate
        /\ pins[j].mate = h.seg
        /\ SamePlanarLocation(h, pins[j])}

\* C8 (connector pairing): every pin-hole has exactly one pin-post on its
\* mating segment at the same planar location, and that post is created with
\* the negation of the hole's direction.
C8_ConnectorPairing ==
    \A i \in 1..Len(pins) :
        pins[i].kind = "hole" =>
            /\ Cardinality(MatingPosts(pins[i])) = 1
            /\ \A j \in MatingPosts(pins[i]) :
                  pins[j].direction = Negated(pins[i].direction)

\* a length in whole micrometres
MicroMetres(ticks) == (ticks * 1000) \div TicksPerMM

\* hole h and post q are a pair: the post is on the hole's mating segment
\* and names the hole's segment as its mate
PinPair(h, q) ==
    /\ h.kind = "hole"
    /\ q.kind = "post"
    /\ q.side = h.side
    /\ q.seg = h.mate
    /\ q.mate = h.seg

\* the pin was created by the splitter (its segment is a half of a cut)
SplitterPin(q) == q.seg[Len(q.seg)] \in SecTokens

\* C9 (clearance): for every pin-hole / pin-post pair, created by the
\* splitter or by a piece segmentation, the post diameter is the hole
\* diameter minus exactly twice the clearance: hole 2000, clearance 100,
\* post 1800 micrometres.
C9_Clearance ==
    \A i \in 1..Len(pins) :
        pins[i].kind = "hole" =>
            \A j \in 1..Len(pins) :
                PinPair(pins[i], pins[j]) =>
                    /\ pins[j].diameter = pins[i].diameter - 2 * pins[j].clearance
                    /\ MicroMetres(pins[i].diameter) = 2000
                    /\ MicroMetres(pins[j].clearance) = 100
                    /\ MicroMetres(pins[j].diameter) = 1800

\* a pair made by a piece segmentation and a pair made by the splitter exist
\* side by side
C9_Witness ==
    /\ \E i, j \in 1..Len(pins) :
          PinPair(pins[i], pins[j]) /\ ~SplitterPin(pins[i]) /\ ~SplitterPin(pins[j])
    /\ \E i, j \in 1..Len(pins) :
          PinPair(pins[i], pins[j]) /\ SplitterPin(pins[i]) /\ SplitterPin(pins[j])

\* the names of a dict are pairwise distinct
DistinctNames(d) == \A i, j \in 1..Len(d) : i # j => d[i].name # d[j].name

\* C10 (segment-name uniqueness and no loss): split_for_build_plate returns
\* a dict of pairwise distinct names whose size is the number of leaves the
\* splitter returned for the input segments, and _mirror_segments returns
\* one segment per input segment.
C10_NoSegmentLost ==
    /\ (pc = "iter" /\ todo = <<>>) =>
          DistinctNames(result) /\ Len(result) = leaves
    /\ (symmetric /\ pc \in {"ready", "iter", "splitter", "export", "done"}) =>
          DistinctNames(right_segments) /\ Len(right_segments) = Len(left_segments)

-----------------------------------------------------------------------------
(* The pipeline around the splitter *)

\* the dict the current side hands to the splitter or to the export
SideSegments == IF side = "left" THEN left_segments ELSE right_segments

\* the files a dict is exported to for the given side
SideDirectory(sd) == IF symmetric THEN <<BaseName, "_" \o sd>> ELSE <<BaseName>>

\* C12 (auto_split is per segment and optional): without auto_split the
\* pipeline never calls the splitter and exports exactly the generated
\* segments, names and handles unchanged; with auto_split each top-level call
\* of the splitter gets one segment and its name as base_name, and a segment
\* that fits is in the output under its own name.
C12_AutoSplit ==
    /\ ~auto_split =>
          /\ pc \notin {"iter", "splitter", "raised"}
          /\ stack = <<>> /\ splits = <<>>
          /\ pc \in {"export", "done"} => output[side] = SideSegments
          /\ pc = "done" =>
                files = (IF symmetric THEN Paths(SideDirectory("left"), left_segments)
                         ELSE <<>>)
                        \o Paths(SideDirectory(side), SideSegments)
    /\ auto_split =>
          /\ (pc = "splitter" /\ parts = <<>> /\ Len(stack) = 1 /\ stack[1].depth = 0) =>
                (stack[1].base_name = Head(todo).name /\ stack[1].obj = Head(todo).obj)
          /\ pc = "export" =>
                \A i \in 1..Len(SideSegments) :
                    (/\ SideSegments[i].obj \in DOMAIN scene
                     /\ FitsPlate(scene[SideSegments[i].obj])) =>
                        \E k \in 1..Len(output[side]) : output[side][k] = SideSegments[i]

\* a pair exported without auto_split although a segment exceeds the plate
C12_Witness ==
    /\ ~auto_split /\ symmetric /\ pc = "done"
    /\ Len(files) = Len(left_segments) + Len(right_segments)
    /\ \E i \in 1..Len(left_segments) : ~FitsPlate(scene[left_segments[i].obj])

\* C13 (mirror after connectors): once the left segments are mirrored, no
\* pin-hole or pin-post is added to any segment for the rest of the run.
C13_MirrorAfterConnectors ==
    [][(symmetric /\ pc \notin {"start", "generated"} /\ pc' # "start")
          => pins' = pins]_vars

\* the operations that cut or add material
CsgOps == {"csg", "cord", "pin", "cut"}

\* finishing was applied exactly once and nothing was cut or added after it
FinishedLast(ops) ==
    /\ Cardinality({i \in 1..Len(ops) : ops[i] = "finish"}) = 1
    /\ \A i, j \in 1..Len(ops) : (ops[i] = "finish" /\ i < j) => ops[j] \notin CsgOps

\* C14 (finishing ordering): every exported segment was finished by
\* add_shardplate_details exactly once, after all its CSG operations (piece
\* composition, pins, cord channels, splitter cuts).
C14_FinishingOrder ==
    \A i \in 1..Len(files) :
        files[i].obj \in DOMAIN history => FinishedLast(history[files[i].obj])

\* C15 (pin orientation): the cylinder of every pin-hole and pin-post lies
\* along the axis of its direction, for the positive and the negative
\* directions, and equal directions give equal orientations.
C15_PinOrientation ==
    /\ \A i \in 1..Len(pins) : pins[i].axis = DirectionAxis(pins[i].direction)
    /\ \A i, j \in 1..Len(pins) :
          pins[i].direction = pins[j].direction => pins[i].axis = pins[j].axis

\* C17 (malformed input is rejected first): with a dimension table that lacks
\* the entry of the piece or a dimension the piece reads, no mesh is created
\* and no boolean operation is performed.
C17_MalformedRejected ==
    table # "complete" => (scene = << >> /\ pins = <<>> /\ files = <<>>)

\* the sides whose export loop has run
ExportedSides ==
    IF pc = "done" THEN (IF symmetric THEN {"left", "right"} ELSE {"left"})
    ELSE IF symmetric /\ side = "right" /\ pc # "raised" THEN {"left"}
    ELSE {}

\* the files written for the segment obj of side sd
FilesOf(sd, seg) ==
    {i \in 1..Len(files) :
        /\ files[i].directory = SideDirectory(sd)
        /\ files[i].file = Append(seg.name, MeshExtension)}

\* C18 (output surface): the export returns one path per segment of the
\* exported dict, in the directory of the piece (or of the piece and side),
\* named segment name plus extension, and no two returned paths are equal.
C18_OutputSurface ==
    /\ \A sd \in ExportedSides : \A k \in 1..Len(output[sd]) :
          Cardinality(FilesOf(sd, output[sd][k])) = 1
    /\ pc = "done" =>
          /\ Cardinality({<<sd, k>> \in {"left", "right"} \X (1..Len(files)) :
                            sd \in ExportedSides /\ k <= Len(output[sd])}) = Len(files)
          /\ \A i \in 1..Len(files) :
                files[i].directory \in {SideDirectory(sd) : sd \in ExportedSides}
    /\ \A i, j \in 1..Len(files) :
          i # j => <<files[i].directory, files[i].file>> # <<files[j].directory, files[j].file>>

\* both sides of a pair exported after the splitter added segments
C18_Witness ==
    /\ pc = "done" /\ symmetric /\ auto_split
    /\ Len(files) > Len(left_segments) + Len(right_segments)

ChestNames ==
    << <<"chest_breastplate_upper">>, <<"chest_ab_plate_1">>, <<"chest_ab_plate_2">>,
       <<"chest_ab_plate_3">>, <<"chest_backplate">> >>

PauldronNames ==
    << <<"pauldron_dome", "_left">>, <<"pauldron_lame1", "_left">>,
       <<"pauldron_lame2", "_left">>, <<"pauldron_lame3", "_left">>,
       <<"pauldron_armguard", "_left">> >>

GauntletNames ==
    << <<"gauntlet_hand", "_left">>, <<"gauntlet_wrist", "_left">>,
       <<"gauntlet_knuckle", "_left">>,
       <<"gauntlet_index1", "_left">>, <<"gauntlet_index2", "_left">>,
       <<"gauntlet_index3", "_left">>,
       <<"gauntlet_middle1", "_left">>, <<"gauntlet_middle2", "_left">>,
       <<"gauntlet_middle3", "_left">>,
       <<"gauntlet_ring1", "_left">>, <<"gauntlet_ring2", "_left">>,
       <<"gauntlet_ring3", "_left">>,
       <<"gauntlet_pinky1", "_left">>, <<"gauntlet_pinky2", "_left">>,
       <<"gauntlet_pinky3", "_left">>,
       <<"gauntlet_thumb_base", "_left">>, <<"gauntlet_thumb_tip", "_left">> >>

\* C19 (fixed seam plans): the chest segmentation yields its 5 segments, the
\* gauntlet its 17 and the pauldron its 5, under pairwise distinct names,
\* whatever the dimension values.
C19_SeamPlans ==
    pc # "start" =>
        /\ piece = "chest" => (Len(left_segments) = 5 /\ Names(left_segments) = ChestNames)
        /\ piece = "pauldron" =>
              (Len(left_segments) = 5 /\ Names(left_segments) = PauldronNames)
        /\ piece = "gauntlet" =>
              (Len(left_segments) = 17 /\ Names(left_segments) = GauntletNames)
        /\ piece \in Pieces => DistinctNames(left_segments)

\* a half-size gauntlet built from the defaults of a table without its entry
C19_Witness ==
    /\ piece = "gauntlet" /\ scale = 50 /\ table = "no_entry" /\ pc = "generated"
    /\ Len(left_segments) = 17

-----------------------------------------------------------------------------
(* Configuration round trip *)

IsNaN(x) == x.t = "float" /\ x.e = -2

\* a == b of two field values in Python
PyEq(a, b) ==
    /\ ~IsNaN(a) /\ ~IsNaN(b)
    /\ a.s = b.s /\ a.m = b.m /\ a.e = b.e
    /\ a.t = b.t \/ {a.t, b.t} \subseteq {"int", "float", "bool"}

\* name and the colors, size and generation fields compare equal
ConfigEq(c, d) ==
    /\ PyEq(c.name, d.name)
    /\ \A sec \in Sections : \A f \in DOMAIN c[sec] :
          f \in DOMAIN d[sec] /\ PyEq(c[sec][f], d[sec][f])

HasNaN(c) == \E sec \in Sections : \E f \in DOMAIN c[sec] : IsNaN(c[sec][f])

\* C20 as stated (config round trip): load of the file written by save
\* returns a configuration whose name and fields all equal those saved.
C20_RoundTrip ==
    cfg.pc = "loaded" => ConfigEq(cfg.config, cfg.loaded)

\* C20 as amended: the same for every configuration none of whose float
\* fields is NaN.
C20_RoundTripNoNaN ==
    (cfg.pc = "loaded" /\ ~HasNaN(cfg.config)) => ConfigEq(cfg.config, cfg.loaded)

\* a configuration whose output directory holds a quote and backslashes was
\* saved and loaded
C20_Witness ==
    /\ cfg.pc = "loaded"
    /\ cfg.config.generation.output_directory
          = PyStr(<<"C:", Backslash, "out", Backslash, Quote>>)
    /\ cfg.file.generation.output_directory
          = <<Quote, "C:", Backslash, Backslash, "out", Backslash, Backslash,
              Backslash, Quote, Quote>>

-----------------------------------------------------------------------------
(* Cord channels *)

\* the point p lies inside the cylinder c (its ends and its wall included)
InsideChannel(p, c) ==
    LET v == Minus(p, c.location)
        n == Dot(c.axis, c.axis)
        along == Dot(v, c.axis)
    IN  /\ 4 * along * along <= c.depth * c.depth * n
        /\ 4 * (Dot(v, v) * n - along * along) <= c.diameter * c.diameter * n

Parallel(u, v) == Cross(u, v) = <<0, 0, 0>>

\* C16 (cord channel is a through-bore): the cylinder subtracted is centred at
\* the midpoint of start and end, is as long as their distance plus the
\* diameter, and has its axis parallel to end - start, so that start and end
\* lie inside it.
C16_ThroughBore ==
    cord.pc = "bored" =>
        LET c == cord.channel
            d == Minus(cord.end, cord.start)
        IN  /\ Minus(cord.end, c.location) = Minus(c.location, cord.start)
            /\ (c.depth - c.diameter) * (c.depth - c.diameter) = Dot(d, d)
            /\ Parallel(c.axis, d)
            /\ InsideChannel(cord.start, c)
            /\ InsideChannel(cord.end, c)

-----------------------------------------------------------------------------
(* The orchestrator *)

\* C11 (orchestrator contract): in a finished run of generate_all that
\* generated a piece, the build plate bounds, the auto_split flag and the
\* detail level have been supplied to the piece generators, and when
\* auto_split_for_plate is set every exported mesh has been passed through
\* the build-plate splitter with the configured plate.
C11_OrchestratorContract ==
    (orch.pc = "done" /\ orch.config.generate # {}) =>
        /\ {"build_plate_x", "build_plate_y", "build_plate_z",
            "auto_split_for_plate", "detail_level"} \subseteq orch.supplied
        /\ orch.config.auto_split_for_plate =>
              \A i \in 1..Len(orch.exported) :
                  orch.exported[i].split_plate = orch.config.build_plate

-----------------------------------------------------------------------------
(* The cut of a split *)

\* C21 (half assignment): in every split the half named <base>_sec1 keeps the
\* part of the mesh below the midpoint of the split axis, its cutter covering
\* what lies above, and the half named <base>_sec2 keeps the part above, its
\* cutter covering what lies below.
C21_HalfAssignment ==
    \A i \in 1..Len(splits) :
        LET o == splits[i].parent
            ax == splits[i].axis
        IN  /\ bbox_max(splits[i].half1)[ax] <= midpoint(o, ax)
            /\ bbox_min(cutter1(o, ax))[ax] >= midpoint(o, ax)
            /\ bbox_min(splits[i].half2)[ax] >= midpoint(o, ax)
            /\ bbox_max(cutter2(o, ax))[ax] <= midpoint(o, ax)

\* the part of the parent on the side a cutter is to remove
RemovedSide(o, ax, upper) ==
    [lo |-> IF upper THEN SetAt(bbox_min(o), ax, midpoint(o, ax)) ELSE bbox_min(o),
     hi |-> IF upper THEN bbox_max(o) ELSE SetAt(bbox_max(o), ax, midpoint(o, ax))]

\* the box c covers the box b
CoversBox(c, b) == \A j \in Axes : Covers(c, b, j)

\* half of an extent, rounded up to a tick
HalfUp(x) == (x + 1) \div 2

\* C22 (cutter coverage): in every split each cutter cube has an edge of more
\* than twice the largest dimension of the mesh and covers the whole part of
\* the mesh on the side it removes, wherever the mesh lies, so that each half,
\* before its pins, has at most half the parent's extent along the split axis.
C22_CutterCoverage ==
    \A i \in 1..Len(splits) :
        LET o == splits[i].parent
            ax == splits[i].axis
            c1 == cutter1(o, ax)
            c2 == cutter2(o, ax)
        IN  /\ dimensions(c1)[ax] > 2 * Max3(dimensions(o))
            /\ dimensions(c2)[ax] > 2 * Max3(dimensions(o))
            /\ CoversBox(WorldBox(c1), RemovedSide(o, ax, FALSE))
            /\ CoversBox(WorldBox(c2), RemovedSide(o, ax, TRUE))
            /\ dimensions(splits[i].half1)[ax] <= HalfUp(dimensions(o)[ax])
            /\ dimensions(splits[i].half2)[ax] <= HalfUp(dimensions(o)[ax])

-----------------------------------------------------------------------------
(* Handles *)

\* C23 (no use after destroy): no call of the splitter reads a mesh handle
\* after it was removed from the scene or consumed by a boolean; a backend
\* that raises ReferenceError on such a read therefore never raises.
C23_NoUseAfterDestroy ==
    pc # "raised"

-----------------------------------------------------------------------------
(* The pins of a split *)

\* the pins of the given kind the splitter has added on the current side
SplitterPinsOfSide(kind) ==
    {j \in 1..Len(pins) :
        pins[j].kind = kind /\ pins[j].side = side /\ SplitterPin(pins[j])}

\* the top-level calls of the splitter begun so far on the current side
CallsOfSide == Len(SideSegments) - Len(todo) + 1

\* C24 (two pin pairs per split): a split that has cut its two halves adds
\* exactly two pin-holes to the _sec1 half and two pin-posts to the _sec2
\* half, hole k and post k at one location on the cut plane and directed
\* along the split axis; when a call returns, the holes and the posts added
\* are each twice the number of returned leaves minus one.
C24_TwoPinPairs ==
    /\ [][ (pc = "splitter" /\ nextId' # nextId) =>
              LET f == Head(stack)
                  o == scene[f.obj]
                  ax == split_axis(o, plate)
                  new == SubSeq(pins', Len(pins) + 1, Len(pins'))
              IN  /\ Len(new) = 4
                  /\ \A k \in {1, 3} :
                        /\ new[k].kind = "hole" /\ new[k].seg = Sec1(f.base_name)
                        /\ new[k + 1].kind = "post" /\ new[k + 1].seg = Sec2(f.base_name)
                        /\ new[k].location = new[k + 1].location
                        /\ new[k].location[ax] = midpoint(o, ax)
                        /\ new[k].direction = pin_direction(ax)
                        /\ new[k + 1].direction = pin_direction(ax) ]_vars
    /\ [](Returned =>
            /\ Cardinality(SplitterPinsOfSide("hole"))
                  = 2 * (leaves + Len(parts) - CallsOfSide)
            /\ Cardinality(SplitterPinsOfSide("post"))
                  = 2 * (leaves + Len(parts) - CallsOfSide))

\* C25 (pin placement): the two pins of a split have split-axis coordinate
\* equal to the cut midpoint, pin k is displaced from the centre of the
\* parent's bounding box by 15% of the extent along the k-th non-split axis,
\* and both pins lie inside the cross-section of the parent's bounding box.
C25_PinPlacement ==
    [][ (pc = "splitter" /\ Len(pins') > Len(pins)) =>
           LET o == scene[Head(stack).obj]
               ax == split_axis(o, plate)
               new == SubSeq(pins', Len(pins) + 1, Len(pins'))
           IN  \A k \in 1..2 :
                   LET loc == new[2 * k - 1].location
                       a == other_axes(ax)[k]
                   IN  /\ loc[ax] = midpoint(o, ax)
                       /\ loc[a] = (bbox_min(o)[a] + bbox_max(o)[a]) \div 2
                                     + (dimensions(o)[a] * PinOffsetPercent) \div 100
                       /\ \A b \in Axes \ {ax} :
                             /\ bbox_min(o)[b] <= loc[b]
                             /\ loc[b] <= bbox_max(o)[b] ]_vars

-----------------------------------------------------------------------------
(* The choice of the split axis *)

\* the axes whose oversize is the largest of the three
TiedAxes(o, p) ==
    LET over == [a \in Axes |-> get_object_dimensions_mm(o)[a] - plate_dims(p)[a]]
    IN  {a \in Axes : over[a] = Max3(over)}

FirstAxis(S) == CHOOSE a \in S : \A b \in S : a <= b

\* C26 (axis tie-break): when two or three axes tie for the largest positive
\* oversize, the split axis is the first of them in the order X, Y, Z: the
\* axis a call is about to split along, and the axis of every split made,
\* is the least axis among those of largest oversize.
C26_AxisTieBreak ==
    /\ SplitEnabled =>
          split_axis(scene[Head(stack).obj], plate)
             = FirstAxis(TiedAxes(scene[Head(stack).obj], plate))
    /\ \A i \in 1..Len(splits) :
          splits[i].axis = FirstAxis(TiedAxes(splits[i].parent, plate))

\* a run has split one mesh whose three axes tie and one with a tie of two
C26_Witness ==
    /\ \E i \in 1..Len(splits) :
          /\ Cardinality(TiedAxes(splits[i].parent, plate)) = 3
          /\ splits[i].axis = 1
    /\ \E i \in 1..Len(splits) :
          /\ Cardinality(TiedAxes(splits[i].parent, plate)) = 2
          /\ splits[i].axis = FirstAxis(TiedAxes(splits[i].parent, plate))

-----------------------------------------------------------------------------
(* What a call leaves in the scene *)

\* the handles created by the running top-level call, known when it has
\* returned: every split of the call took eight fresh handles (two halves, two
\* cutters, four pin cylinders) and added one leaf
CallCreated == (nextId - 8 * (Len(parts) - 1)) .. (nextId - 1)

\* the handles the call received or created
CallHandles == {Head(todo).obj} \cup CallCreated

\* C27 (only leaves survive): when split_object_for_plate returns, the handles
\* alive in the scene among those the call received or created are exactly
\* the returned leaves, each returned once: the original and every half that
\* was split again are removed, every cutter and pin cylinder is consumed.
C27_OnlyLeavesSurvive ==
    Returned =>
        /\ CallHandles \cap DOMAIN scene = {parts[i].obj : i \in 1..Len(parts)}
        /\ \A i, j \in 1..Len(parts) : parts[i].obj = parts[j].obj => i = j

\* a call has returned four leaves or more: the original, two intermediate
\* halves, six cutters and twelve pin cylinders are gone
C27_Witness ==
    /\ Returned
    /\ Len(parts) >= 4
    /\ Head(todo).obj \notin DOMAIN scene
    /\ Cardinality(CallCreated \ DOMAIN scene) >= 20

-----------------------------------------------------------------------------
(* Serial chains *)

\* the serial chains of the piece generated, each in the order of assembly
Chains ==
    IF piece = "chest" THEN {[i \in 1..3 |-> ChestAbName(i - 1)]}
    ELSE IF piece = "pauldron" THEN {[i \in 1..3 |-> LameName(i - 1)]}
    ELSE IF piece = "gauntlet" THEN {[k \in 1..3 |-> FingerName(f, k - 1)] : f \in 0..3}
    ELSE IF piece = "sabaton" THEN {[i \in 1..3 |-> ToeName(i - 1)]}
    ELSE {}

\* the pins of one kind a segmentation has put on a segment
PinsOn(kind, seg) ==
    {j \in 1..Len(pins) : pins[j].kind = kind /\ pins[j].seg = seg}

AbsDiff(a, b) == IF a >= b THEN a - b ELSE b - a

\* distance of post q from hole h along the hole's axis
AxialGap(h, q) ==
    AbsDiff(h.location[DirectionAxis(h.direction)], q.location[DirectionAxis(h.direction)])

\* the posts of other segments that stand on the axis of hole h
FacingPosts(h) ==
    {j \in 1..Len(pins) :
        /\ pins[j].kind = "post"
        /\ pins[j].side = h.side
        /\ pins[j].seg # h.seg
        /\ ~SplitterPin(pins[j])
        /\ DirectionAxis(pins[j].direction) = DirectionAxis(h.direction)
        /\ SamePlanarLocation(h, pins[j])}

\* the posts that match hole h: those nearest to it on its axis
MatchedPosts(h) ==
    {j \in FacingPosts(h) :
        \A k \in FacingPosts(h) : AxialGap(h, pins[j]) <= AxialGap(h, pins[k])}

\* C28 (no skip connections): in every serial chain of a segmentation the
\* pin-holes of segment i are matched by pin-posts of segment i+1 and of no
\* other segment, each post of segment i+1 by exactly one hole of segment i,
\* so that holes and posts across a seam are equal in number; the last segment
\* of a chain has no pin-hole.
C28_NoSkipConnections ==
    \A c \in Chains :
        /\ PinsOn("hole", c[Len(c)]) = {}
        /\ \A i \in 1..(Len(c) - 1) :
              /\ \A h \in PinsOn("hole", c[i]) :
                    /\ MatchedPosts(pins[h]) # {}
                    /\ \A j \in MatchedPosts(pins[h]) : pins[j].seg = c[i + 1]
              /\ \A q \in PinsOn("post", c[i + 1]) :
                    Cardinality({h \in PinsOn("hole", c[i]) : q \in MatchedPosts(pins[h])}) = 1
              /\ Cardinality(PinsOn("hole", c[i])) = Cardinality(PinsOn("post", c[i + 1]))

\* the toe chain is generated: the hole of the first toe segment has the post
\* of the third on its axis as well, and is matched by the post of the second
C28_Witness ==
    /\ piece = "sabaton"
    /\ pins # <<>>
    /\ \E h \in PinsOn("hole", ToeName(0)) :
          /\ \E j \in FacingPosts(pins[h]) : pins[j].seg = ToeName(2)
          /\ \E j \in MatchedPosts(pins[h]) : pins[j].seg = ToeName(1)

-----------------------------------------------------------------------------
(* The two sides of a pair *)

\* C29 (left/right consistency): when export_pair_segmented has split and
\* exported both sides, the right output has as many segments as the left,
\* the i-th right name is the i-th left name with _left replaced by _right,
\* and the splits made on the right are those made on the left, name for
\* name (with _right for _left) and axis for axis.
C29_LeftRightConsistency ==
    (symmetric /\ pc = "done") =>
        /\ Len(output["right"]) = Len(output["left"])
        /\ \A i \in 1..Len(output["left"]) :
              i <= Len(output["right"]) =>
                  output["right"][i].name = ReplaceLeftRight(output["left"][i].name)
        /\ Len(splits) % 2 = 0
        /\ \A i \in 1..(Len(splits) \div 2) :
              LET l == splits[i]
                  r == splits[i + Len(splits) \div 2]
              IN  /\ r.name = ReplaceLeftRight(l.name)
                  /\ r.axis = l.axis

-----------------------------------------------------------------------------
(* Orientation of mating pins *)

\* C30 (mating pins co-axial): for every pin-hole of a piece segmentation and
\* its mating pin-post, requested with equal or opposite directions, the
\* cylinder cut for the hole and the cylinder added for the post lie along
\* the same axis.
C30_MatingPinsCoaxial ==
    \A i \in 1..Len(pins) :
        (pins[i].kind = "hole" /\ ~SplitterPin(pins[i])) =>
            \A j \in 1..Len(pins) :
                (/\ PinPair(pins[i], pins[j])
                 /\ pins[j].direction \in {pins[i].direction, Negated(pins[i].direction)}) =>
                    pins[j].axis = pins[i].axis

====
